---------------------------- MODULE Spec2Model ----------------------------
(***************************************************************************)
(* Watchdog Manager of StepAware, as implemented by MockWatchdog in        *)
(* test/test_watchdog.py: module registry, per-tick health polling,        *)
(* failure bookkeeping, tiered recovery and hardware watchdog feeding.     *)
(***************************************************************************)
EXTENDS Integers, Sequences, FiniteSets

(***************************************************************************)
(* Bounds of the model.                                                    *)
(***************************************************************************)
\* Number of module ids in use (MODULE_STATE_MACHINE, MODULE_CONFIG_MANAGER, ...).
NumModuleIds == 2
\* Cap on the number of register_module() and update() calls together.
MaxCalls == 4
\* The same cap in the specification that also queries the manager.
MaxQueryCalls == 3
\* Cap on the number of update() calls in the single-module specification.
MaxDeepTicks == 11
\* Largest threshold value drawn in the configurable-threshold specification.
MaxThreshold == 4
\* Largest debounce_ms and long_press_ms a MockButton is constructed with.
MaxDebounceMs == 2
MaxLongPressMs == 2
\* Largest step of the button's simulated clock and the time it stops at.
MaxDeltaMs == 2
MaxTimeMs == 6
\* Cap on the calls made on the two state machines together.
MaxModeCalls == 5
\* Cap on the calls made on the MockStateMachine with its clock.
MaxWarningCalls == 7
\* Registrations after the first and ticks of the re-registered module.
MaxReregisters == 1
MaxReregTicks == 6
\* Calls made on the LED.
MaxLedCalls == 6
\* Calls on the logger that are chosen freely before the buffer is filled,
\* and calls made after BUFFER_SIZE calls.
MaxMixedLogCalls == 1
MaxExtraLogs == 2

(***************************************************************************)
(* Program constants (class attributes of MockWatchdog).                   *)
(***************************************************************************)
MODULE_STATE_MACHINE == 0

HEALTH_OK == 0
HEALTH_WARNING == 1
HEALTH_CRITICAL == 2
HEALTH_FAILED == 3

RECOVERY_NONE == 0
RECOVERY_SOFT == 1
RECOVERY_MODULE_RESTART == 2
RECOVERY_SYSTEM_REBOOT == 3
RECOVERY_HW_WATCHDOG == 4

\* Thresholds set by __init__.
DEFAULT_SOFT_RECOVERY_THRESHOLD == 2
DEFAULT_MODULE_RESTART_THRESHOLD == 5
DEFAULT_SYSTEM_RECOVERY_THRESHOLD == 10

HealthStatus == {HEALTH_OK, HEALTH_WARNING, HEALTH_CRITICAL, HEALTH_FAILED}
RecoveryAction == {RECOVERY_NONE, RECOVERY_SOFT, RECOVERY_MODULE_RESTART,
                   RECOVERY_SYSTEM_REBOOT, RECOVERY_HW_WATCHDOG}

ModuleIds == 0 .. (NumModuleIds - 1)

(***************************************************************************)
(* The callbacks handed to register_module.  A health check is None (the   *)
(* update loop skips it), a constant function as the tests write them, or  *)
(* an arbitrary callable (a closure with its own state) that may return    *)
(* any status on any call.  A recovery callback is None or a callable; its *)
(* return value is ignored by the manager.                                 *)
(***************************************************************************)
CheckFuncs == {"None", "check_critical", "check_any"}
RecoveryFuncs == {"None", "recovery_func"}
Messages == {"None", "msg"}

\* The (check_func, recovery_func) pairs register_module is called with.
RegisterArgs ==
    {<<"None", "None">>, <<"check_critical", "None">>,
     <<"check_any", "None">>, <<"check_any", "recovery_func">>}

\* The message that comes with a status, as the health checks of the tests
\* return it: None with OK, a text with the others.
message_of(status) == IF status = HEALTH_OK THEN "None" ELSE "msg"

\* The (status, message) pairs a call of the health check can return.
check_func_returns(check_func) ==
    IF check_func = "check_critical"
    THEN {[status |-> HEALTH_CRITICAL, message |-> message_of(HEALTH_CRITICAL)]}
    ELSE IF check_func = "check_any"
    THEN {[status |-> st, message |-> message_of(st)] : st \in HealthStatus}
    ELSE {}

VARIABLES
    modules,                    \* self.modules: module_id -> record
    order,                      \* insertion order of the keys of self.modules
    hw_wdt_fed,                 \* self.hw_wdt_fed
    hw_wdt_feed_count,          \* self.hw_wdt_feed_count
    system_rebooted,            \* self.system_rebooted
    recovery_actions_taken,     \* self.recovery_actions_taken
    soft_recovery_threshold,    \* self.soft_recovery_threshold
    module_restart_threshold,   \* self.module_restart_threshold
    system_recovery_threshold,  \* self.system_recovery_threshold
    recovery_calls,             \* recovery callbacks invoked by the last update()
    last_call,                  \* the last operation called, its argument and result
    n_updates,                  \* number of update() calls so far
    n_registers                 \* number of register_module() calls so far

\* The variables of the watchdog manager.
watchdog_vars ==
    <<modules, order, hw_wdt_fed, hw_wdt_feed_count, system_rebooted,
      recovery_actions_taken, soft_recovery_threshold,
      module_restart_threshold, system_recovery_threshold,
      recovery_calls, last_call, n_updates, n_registers>>

(***************************************************************************)
(* The other objects of the firmware that the test suite mocks.  Each is   *)
(* one variable holding the fields of the instance, with a second variable *)
(* for what its callers have seen of it.                                   *)
(***************************************************************************)
VARIABLES
    button,                     \* the fields of a MockButton
    button_history,             \* events ever pushed, last call and its result
    sm,                         \* the fields of a MockStateMachine
    sm_history,                 \* the calls made on it
    logic_sm,                   \* the fields of a test_logic StateMachine
    logic_history,              \* the calls made on it
    led,                        \* the fields of a MockLED
    led_history,                \* the calls made on it
    logger,                     \* the fields of a MockLogger
    logger_history              \* the calls made on it, the entries accepted

button_vars == <<button, button_history>>
sm_vars == <<sm, sm_history, logic_sm, logic_history>>
led_vars == <<led, led_history>>
logger_vars == <<logger, logger_history>>

\* The objects a call on the watchdog manager leaves alone.
other_objects == <<button_vars, sm_vars, led_vars, logger_vars>>

vars == <<watchdog_vars, button_vars, sm_vars, led_vars, logger_vars>>

thresholds == <<soft_recovery_threshold, module_restart_threshold,
                system_recovery_threshold>>

(***************************************************************************)
(* Pure helpers of MockWatchdog.                                           *)
(***************************************************************************)

\* Mutant: the first two actions swapped, MODULE_RESTART before SOFT.
determine_recovery_action_swapped(failure_count) ==
    IF failure_count >= system_recovery_threshold THEN RECOVERY_HW_WATCHDOG
    ELSE IF failure_count >= module_restart_threshold THEN RECOVERY_SYSTEM_REBOOT
    ELSE IF failure_count >= soft_recovery_threshold THEN RECOVERY_SOFT
    ELSE RECOVERY_MODULE_RESTART

\* Mutant: the soft threshold compared with > instead of >=.
determine_recovery_action_soft_gt(failure_count) ==
    IF failure_count >= system_recovery_threshold THEN RECOVERY_HW_WATCHDOG
    ELSE IF failure_count >= module_restart_threshold THEN RECOVERY_SYSTEM_REBOOT
    ELSE IF failure_count > soft_recovery_threshold THEN RECOVERY_MODULE_RESTART
    ELSE RECOVERY_SOFT

\* Mutant: the system threshold compared with > instead of >=.
determine_recovery_action_system_gt(failure_count) ==
    IF failure_count > system_recovery_threshold THEN RECOVERY_HW_WATCHDOG
    ELSE IF failure_count >= module_restart_threshold THEN RECOVERY_SYSTEM_REBOOT
    ELSE IF failure_count >= soft_recovery_threshold THEN RECOVERY_MODULE_RESTART
    ELSE RECOVERY_SOFT

\* Mutant: escalation stops at SYSTEM_REBOOT, the last branch never taken.
determine_recovery_action_no_hw(failure_count) ==
    IF failure_count >= module_restart_threshold THEN RECOVERY_SYSTEM_REBOOT
    ELSE IF failure_count >= soft_recovery_threshold THEN RECOVERY_MODULE_RESTART
    ELSE RECOVERY_SOFT

\* Mutant: the module restart threshold compared with > instead of >=.
determine_recovery_action_restart_gt(failure_count) ==
    IF failure_count >= system_recovery_threshold THEN RECOVERY_HW_WATCHDOG
    ELSE IF failure_count > module_restart_threshold THEN RECOVERY_SYSTEM_REBOOT
    ELSE IF failure_count >= soft_recovery_threshold THEN RECOVERY_MODULE_RESTART
    ELSE RECOVERY_SOFT

\* _determine_recovery_action: the action for a consecutive failure count.
_determine_recovery_action(failure_count) ==
    IF failure_count >= system_recovery_threshold THEN RECOVERY_HW_WATCHDOG
    ELSE IF failure_count >= module_restart_threshold THEN RECOVERY_SYSTEM_REBOOT
    ELSE IF failure_count >= soft_recovery_threshold THEN RECOVERY_MODULE_RESTART
    ELSE RECOVERY_SOFT

\* The loop of get_system_health over self.modules.values(), from position i
\* of the insertion order with the running value worst.
RECURSIVE worst_from(_, _, _, _)
worst_from(mods, ord, i, worst) ==
    IF i > Len(ord) THEN worst
    ELSE worst_from(mods, ord, i + 1,
                    IF mods[ord[i]].status > worst THEN mods[ord[i]].status
                    ELSE worst)

\* Mutant: the status of the module registered last instead of the worst one.
get_system_health_last(mods, ord) ==
    IF Len(ord) = 0 THEN HEALTH_OK ELSE mods[ord[Len(ord)]].status

\* get_system_health on a registry (mods, ord).
get_system_health(mods, ord) == worst_from(mods, ord, 1, HEALTH_OK)

\* Mutant: CRITICAL counted as healthy.
is_healthy_unless_failed(mods, ord) ==
    get_system_health(mods, ord) # HEALTH_FAILED

\* Mutant: WARNING counted as unhealthy.
is_healthy_only_ok(mods, ord) ==
    get_system_health(mods, ord) = HEALTH_OK

\* Mutant: nothing is healthy once a reboot was requested.
is_healthy_unless_rebooted(mods, ord) ==
    /\ ~system_rebooted
    /\ get_system_health(mods, ord) \in {HEALTH_OK, HEALTH_WARNING}

\* is_healthy on a registry (mods, ord).
is_healthy(mods, ord) ==
    get_system_health(mods, ord) \in {HEALTH_OK, HEALTH_WARNING}

\* Mutant: an unknown module reported as OK.
get_module_health_open(mods, module_id) ==
    IF module_id \in DOMAIN mods THEN mods[module_id].status
    ELSE HEALTH_OK

\* get_module_health on a registry.
get_module_health(mods, module_id) ==
    IF module_id \in DOMAIN mods THEN mods[module_id].status
    ELSE HEALTH_FAILED

(***************************************************************************)
(* The part of the manager that one update() rewrites while it polls.      *)
(***************************************************************************)
self_state ==
    [modules |-> modules,
     recovery_actions_taken |-> recovery_actions_taken,
     system_rebooted |-> system_rebooted,
     recovery_calls |-> << >>]

\* Mutant: the reboot flag set from MODULE_RESTART on.
handle_module_failure_early_reboot(self, module_id) ==
    LET info == self.modules[module_id]
        action == _determine_recovery_action(info.failure_count)
        logged == Append(self.recovery_actions_taken,
                         [module |-> module_id, action |-> action,
                          failure_count |-> info.failure_count])
    IN  [self EXCEPT !.recovery_actions_taken = logged,
                     !.system_rebooted =
                         IF action >= RECOVERY_MODULE_RESTART THEN TRUE ELSE @]

\* Mutant: the recovery callback invoked with every action.
handle_module_failure_always_calls(self, module_id) ==
    LET info == self.modules[module_id]
        action == _determine_recovery_action(info.failure_count)
        logged == Append(self.recovery_actions_taken,
                         [module |-> module_id, action |-> action,
                          failure_count |-> info.failure_count])
        called == Append(self.recovery_calls,
                         [module |-> module_id, action |-> action])
    IN  [self EXCEPT !.recovery_actions_taken = logged,
                     !.recovery_calls =
                         IF info.recovery_func # "None" THEN called ELSE @,
                     !.system_rebooted =
                         IF action = RECOVERY_SYSTEM_REBOOT THEN TRUE ELSE @]

\* Mutant: the reboot flag set only for a module with a recovery callback.
handle_module_failure_reboot_needs_callback(self, module_id) ==
    LET info == self.modules[module_id]
        action == _determine_recovery_action(info.failure_count)
        logged == Append(self.recovery_actions_taken,
                         [module |-> module_id, action |-> action,
                          failure_count |-> info.failure_count])
        called == Append(self.recovery_calls,
                         [module |-> module_id, action |-> action])
    IN  IF action = RECOVERY_SOFT \/ action = RECOVERY_MODULE_RESTART
        THEN [self EXCEPT !.recovery_actions_taken = logged,
                          !.recovery_calls =
                              IF info.recovery_func # "None" THEN called ELSE @]
        ELSE IF action = RECOVERY_SYSTEM_REBOOT /\ info.recovery_func # "None"
        THEN [self EXCEPT !.recovery_actions_taken = logged,
                          !.system_rebooted = TRUE]
        ELSE [self EXCEPT !.recovery_actions_taken = logged]

\* Mutant: the reboot flag set for HARDWARE_WATCHDOG_RESET as well.
handle_module_failure_hw_sets_reboot(self, module_id) ==
    LET info == self.modules[module_id]
        action == _determine_recovery_action(info.failure_count)
        logged == Append(self.recovery_actions_taken,
                         [module |-> module_id, action |-> action,
                          failure_count |-> info.failure_count])
        called == Append(self.recovery_calls,
                         [module |-> module_id, action |-> action])
    IN  IF action = RECOVERY_SOFT \/ action = RECOVERY_MODULE_RESTART
        THEN [self EXCEPT !.recovery_actions_taken = logged,
                          !.recovery_calls =
                              IF info.recovery_func # "None" THEN called ELSE @]
        ELSE [self EXCEPT !.recovery_actions_taken = logged,
                          !.system_rebooted = TRUE]

\* Mutant: a failure without a recovery callback is not recorded.
handle_module_failure_logs_calls(self, module_id) ==
    LET info == self.modules[module_id]
        action == _determine_recovery_action(info.failure_count)
        logged == IF info.recovery_func # "None"
                  THEN Append(self.recovery_actions_taken,
                              [module |-> module_id, action |-> action,
                               failure_count |-> info.failure_count])
                  ELSE self.recovery_actions_taken
        called == Append(self.recovery_calls,
                         [module |-> module_id, action |-> action])
    IN  IF action = RECOVERY_SOFT \/ action = RECOVERY_MODULE_RESTART
        THEN [self EXCEPT !.recovery_actions_taken = logged,
                          !.recovery_calls =
                              IF info.recovery_func # "None" THEN called ELSE @]
        ELSE IF action = RECOVERY_SYSTEM_REBOOT
        THEN [self EXCEPT !.recovery_actions_taken = logged,
                          !.system_rebooted = TRUE]
        ELSE [self EXCEPT !.recovery_actions_taken = logged]

\* _handle_module_failure, on the record self of the fields above.
_handle_module_failure(self, module_id) ==
    LET info == self.modules[module_id]
        action == _determine_recovery_action(info.failure_count)
        logged == Append(self.recovery_actions_taken,
                         [module |-> module_id, action |-> action,
                          failure_count |-> info.failure_count])
        called == Append(self.recovery_calls,
                         [module |-> module_id, action |-> action])
    IN  IF action = RECOVERY_SOFT \/ action = RECOVERY_MODULE_RESTART
        THEN [self EXCEPT !.recovery_actions_taken = logged,
                          !.recovery_calls =
                              IF info.recovery_func # "None" THEN called ELSE @]
        ELSE IF action = RECOVERY_SYSTEM_REBOOT
        THEN [self EXCEPT !.recovery_actions_taken = logged,
                          !.system_rebooted = TRUE]
        ELSE [self EXCEPT !.recovery_actions_taken = logged]

\* Mutant: only FAILED counted as a failure, CRITICAL stored and ignored.
update_module_health_failed_only(self, module_id, status, message) ==
    LET stored == [self EXCEPT !.modules[module_id].status = status,
                               !.modules[module_id].message = message]
    IN  IF status = HEALTH_FAILED
        THEN _handle_module_failure(
                 [stored EXCEPT !.modules[module_id].failure_count = @ + 1,
                                !.modules[module_id].total_failures = @ + 1],
                 module_id)
        ELSE IF status = HEALTH_OK /\ stored.modules[module_id].failure_count > 0
        THEN [stored EXCEPT !.modules[module_id].failure_count = 0]
        ELSE stored

\* Mutant: the streak reset by every status that is not a failure.
update_module_health_warning_resets(self, module_id, status, message) ==
    LET stored == [self EXCEPT !.modules[module_id].status = status,
                               !.modules[module_id].message = message]
    IN  IF status \in {HEALTH_CRITICAL, HEALTH_FAILED}
        THEN _handle_module_failure(
                 [stored EXCEPT !.modules[module_id].failure_count = @ + 1,
                                !.modules[module_id].total_failures = @ + 1],
                 module_id)
        ELSE [stored EXCEPT !.modules[module_id].failure_count = 0]

\* Mutant: recovery resets the lifetime counter instead of the streak.
update_module_health_resets_total(self, module_id, status, message) ==
    LET stored == [self EXCEPT !.modules[module_id].status = status,
                               !.modules[module_id].message = message]
    IN  IF status \in {HEALTH_CRITICAL, HEALTH_FAILED}
        THEN _handle_module_failure(
                 [stored EXCEPT !.modules[module_id].failure_count = @ + 1,
                                !.modules[module_id].total_failures = @ + 1],
                 module_id)
        ELSE IF status = HEALTH_OK /\ stored.modules[module_id].failure_count > 0
        THEN [stored EXCEPT !.modules[module_id].total_failures = 0]
        ELSE stored

\* Mutant: WARNING escalated like a failure, without counting it.
update_module_health_warning_escalates(self, module_id, status, message) ==
    LET stored == [self EXCEPT !.modules[module_id].status = status,
                               !.modules[module_id].message = message]
    IN  IF status \in {HEALTH_CRITICAL, HEALTH_FAILED}
        THEN _handle_module_failure(
                 [stored EXCEPT !.modules[module_id].failure_count = @ + 1,
                                !.modules[module_id].total_failures = @ + 1],
                 module_id)
        ELSE IF status = HEALTH_WARNING
        THEN _handle_module_failure(stored, module_id)
        ELSE IF status = HEALTH_OK /\ stored.modules[module_id].failure_count > 0
        THEN [stored EXCEPT !.modules[module_id].failure_count = 0]
        ELSE stored

\* Mutant: a failure of one module lengthens the streak of every module.
update_module_health_shared_streak(self, module_id, status, message) ==
    LET stored == [self EXCEPT !.modules[module_id].status = status,
                               !.modules[module_id].message = message]
    IN  IF status \in {HEALTH_CRITICAL, HEALTH_FAILED}
        THEN _handle_module_failure(
                 [stored EXCEPT
                      !.modules =
                          [m \in DOMAIN @ |->
                               [@[m] EXCEPT
                                    !.failure_count = @ + 1,
                                    !.total_failures =
                                        IF m = module_id THEN @ + 1 ELSE @]]],
                 module_id)
        ELSE IF status = HEALTH_OK /\ stored.modules[module_id].failure_count > 0
        THEN [stored EXCEPT !.modules[module_id].failure_count = 0]
        ELSE stored

\* _update_module_health, on the record self.
_update_module_health(self, module_id, status, message) ==
    LET stored == [self EXCEPT !.modules[module_id].status = status,
                               !.modules[module_id].message = message]
    IN  IF status \in {HEALTH_CRITICAL, HEALTH_FAILED}
        THEN _handle_module_failure(
                 [stored EXCEPT !.modules[module_id].failure_count = @ + 1,
                                !.modules[module_id].total_failures = @ + 1],
                 module_id)
        ELSE IF status = HEALTH_OK /\ stored.modules[module_id].failure_count > 0
        THEN [stored EXCEPT !.modules[module_id].failure_count = 0]
        ELSE stored

\* Mutant: the modules polled in reverse insertion order.
RECURSIVE poll_modules_reversed(_, _, _, _)
poll_modules_reversed(self, ord, i, results) ==
    IF i > Len(ord) THEN self
    ELSE LET module_id == ord[Len(ord) + 1 - i]
         IN  IF self.modules[module_id].check_func # "None"
             THEN poll_modules_reversed(
                      _update_module_health(self, module_id,
                                            results[module_id].status,
                                            results[module_id].message),
                      ord, i + 1, results)
             ELSE poll_modules_reversed(self, ord, i + 1, results)

\* The for loop of update(): modules polled in insertion order from position
\* i, results[module_id] being what that module's health check returns.
RECURSIVE poll_modules(_, _, _, _)
poll_modules(self, ord, i, results) ==
    IF i > Len(ord) THEN self
    ELSE LET module_id == ord[i]
         IN  IF self.modules[module_id].check_func # "None"
             THEN poll_modules(
                      _update_module_health(self, module_id,
                                            results[module_id].status,
                                            results[module_id].message),
                      ord, i + 1, results)
             ELSE poll_modules(self, ord, i + 1, results)

\* What the health checks of the registered modules can return in one tick;
\* a module without a health check is not called (its entry is a placeholder).
NotCalled == [status |-> HEALTH_OK, message |-> "None"]
TickResults ==
    {results \in [DOMAIN modules -> [status : HealthStatus, message : Messages]] :
        \A m \in DOMAIN modules :
            IF modules[m].check_func = "None"
            THEN results[m] = NotCalled
            ELSE results[m] \in check_func_returns(modules[m].check_func)}

(***************************************************************************)
(* MockButton of test/test_hal_button_debounce.py: the debouncing state    *)
(* machine of the button driver, on a record self of the instance fields.  *)
(***************************************************************************)
EVENT_NONE == 0
EVENT_PRESSED == 1
EVENT_RELEASED == 2
EVENT_CLICK == 3
EVENT_LONG_PRESS == 4

STATE_RELEASED == 0
STATE_DEBOUNCING_PRESS == 1
STATE_PRESSED == 2
STATE_LONG_PRESS == 3
STATE_DEBOUNCING_RELEASE == 4

\* The default arguments of MockButton.__init__.
DEFAULT_PIN == 0
DEFAULT_DEBOUNCE_MS == 50
DEFAULT_LONG_PRESS_MS == 1000

\* MockButton.__init__.
MockButton_init(pin, debounce_ms, long_press_ms) ==
    [pin |-> pin,
     debounce_ms |-> debounce_ms,
     long_press_ms |-> long_press_ms,
     initialized |-> FALSE,
     state |-> STATE_RELEASED,
     is_pressed |-> FALSE,
     raw_state |-> FALSE,
     press_time |-> 0,
     release_time |-> 0,
     last_state_change |-> 0,
     long_press_triggered |-> FALSE,
     click_count |-> 0,
     event_queue |-> << >>,
     current_time_ms |-> 0]

\* MockButton.begin.
begin(self) == [self EXCEPT !.initialized = TRUE]

\* MockButton.advance_time.
MockButton_advance_time(self, delta_ms) ==
    [self EXCEPT !.current_time_ms = @ + delta_ms]

\* MockButton.mock_press and mock_release.
mock_press(self) == [self EXCEPT !.raw_state = TRUE]
mock_release(self) == [self EXCEPT !.raw_state = FALSE]

\* MockButton.push_event.
push_event(self, event) == [self EXCEPT !.event_queue = Append(@, event)]

\* MockButton.get_next_event, as <<result, self afterwards>>.
get_next_event(self) ==
    IF self.event_queue # << >>
    THEN <<Head(self.event_queue), [self EXCEPT !.event_queue = Tail(@)]>>
    ELSE <<EVENT_NONE, self>>

\* MockButton.reset_click_count.
reset_click_count(self) == [self EXCEPT !.click_count = 0]

\* update() in STATE_RELEASED.
update_released(self) ==
    IF self.raw_state
    THEN [self EXCEPT !.state = STATE_DEBOUNCING_PRESS,
                      !.last_state_change = self.current_time_ms]
    ELSE self

\* Mutant: the press debounce compared with > instead of >=.
update_debouncing_press_gt(self) ==
    IF ~self.raw_state
    THEN [self EXCEPT !.state = STATE_RELEASED]
    ELSE IF self.current_time_ms - self.last_state_change > self.debounce_ms
    THEN push_event([self EXCEPT !.state = STATE_PRESSED,
                                 !.is_pressed = TRUE,
                                 !.press_time = self.current_time_ms,
                                 !.long_press_triggered = FALSE],
                    EVENT_PRESSED)
    ELSE self

\* update() in STATE_DEBOUNCING_PRESS.
update_debouncing_press(self) ==
    IF ~self.raw_state
    THEN [self EXCEPT !.state = STATE_RELEASED]
    ELSE IF self.current_time_ms - self.last_state_change >= self.debounce_ms
    THEN push_event([self EXCEPT !.state = STATE_PRESSED,
                                 !.is_pressed = TRUE,
                                 !.press_time = self.current_time_ms,
                                 !.long_press_triggered = FALSE],
                    EVENT_PRESSED)
    ELSE self

\* update() in STATE_PRESSED.
update_pressed(self) ==
    IF ~self.raw_state
    THEN [self EXCEPT !.state = STATE_DEBOUNCING_RELEASE,
                      !.last_state_change = self.current_time_ms]
    ELSE IF ~self.long_press_triggered
            /\ self.current_time_ms - self.press_time >= self.long_press_ms
    THEN push_event([self EXCEPT !.state = STATE_LONG_PRESS,
                                 !.long_press_triggered = TRUE],
                    EVENT_LONG_PRESS)
    ELSE self

\* update() in STATE_LONG_PRESS.
update_long_press(self) ==
    IF ~self.raw_state
    THEN [self EXCEPT !.state = STATE_DEBOUNCING_RELEASE,
                      !.last_state_change = self.current_time_ms]
    ELSE self

\* Mutant: a false release always goes back to STATE_PRESSED.
update_debouncing_release_to_pressed(self) ==
    IF self.raw_state
    THEN [self EXCEPT !.state = STATE_PRESSED]
    ELSE IF self.current_time_ms - self.last_state_change >= self.debounce_ms
    THEN LET released == push_event([self EXCEPT !.state = STATE_RELEASED,
                                                 !.is_pressed = FALSE,
                                                 !.release_time =
                                                     self.current_time_ms],
                                    EVENT_RELEASED)
         IN  IF ~self.long_press_triggered
             THEN [push_event(released, EVENT_CLICK) EXCEPT !.click_count = @ + 1]
             ELSE released
    ELSE self

\* Mutant: every confirmed release counted as a click.
update_debouncing_release_always_click(self) ==
    IF self.raw_state
    THEN [self EXCEPT !.state = IF self.long_press_triggered
                                THEN STATE_LONG_PRESS ELSE STATE_PRESSED]
    ELSE IF self.current_time_ms - self.last_state_change >= self.debounce_ms
    THEN LET released == push_event([self EXCEPT !.state = STATE_RELEASED,
                                                 !.is_pressed = FALSE,
                                                 !.release_time =
                                                     self.current_time_ms],
                                    EVENT_RELEASED)
         IN  [push_event(released, EVENT_CLICK) EXCEPT !.click_count = @ + 1]
    ELSE self

\* Mutant: EVENT_CLICK pushed before EVENT_RELEASED.
update_debouncing_release_click_first(self) ==
    IF self.raw_state
    THEN [self EXCEPT !.state = IF self.long_press_triggered
                                THEN STATE_LONG_PRESS ELSE STATE_PRESSED]
    ELSE IF self.current_time_ms - self.last_state_change >= self.debounce_ms
    THEN LET released == [self EXCEPT !.state = STATE_RELEASED,
                                      !.is_pressed = FALSE,
                                      !.release_time = self.current_time_ms]
         IN  IF ~self.long_press_triggered
             THEN push_event([push_event(released, EVENT_CLICK)
                                  EXCEPT !.click_count = @ + 1],
                             EVENT_RELEASED)
             ELSE push_event(released, EVENT_RELEASED)
    ELSE self

\* update() in STATE_DEBOUNCING_RELEASE.
update_debouncing_release(self) ==
    IF self.raw_state
    THEN [self EXCEPT !.state = IF self.long_press_triggered
                                THEN STATE_LONG_PRESS ELSE STATE_PRESSED]
    ELSE IF self.current_time_ms - self.last_state_change >= self.debounce_ms
    THEN LET released == push_event([self EXCEPT !.state = STATE_RELEASED,
                                                 !.is_pressed = FALSE,
                                                 !.release_time =
                                                     self.current_time_ms],
                                    EVENT_RELEASED)
         IN  IF ~self.long_press_triggered
             THEN [push_event(released, EVENT_CLICK) EXCEPT !.click_count = @ + 1]
             ELSE released
    ELSE self

\* MockButton.update.
MockButton_update(self) ==
    IF ~self.initialized THEN self
    ELSE IF self.state = STATE_RELEASED THEN update_released(self)
    ELSE IF self.state = STATE_DEBOUNCING_PRESS THEN update_debouncing_press(self)
    ELSE IF self.state = STATE_PRESSED THEN update_pressed(self)
    ELSE IF self.state = STATE_LONG_PRESS THEN update_long_press(self)
    ELSE IF self.state = STATE_DEBOUNCING_RELEASE
    THEN update_debouncing_release(self)
    ELSE self

\* What the callers have seen of a button that was never called.
NoButtonHistory ==
    [pushed |-> << >>, reset_at |-> 0, op |-> "__init__", ret |-> EVENT_NONE]

\* A MockButton constructed with the default arguments and left alone.
ButtonConstructed ==
    /\ button = MockButton_init(DEFAULT_PIN, DEFAULT_DEBOUNCE_MS,
                                DEFAULT_LONG_PRESS_MS)
    /\ button_history = NoButtonHistory

(***************************************************************************)
(* MockStateMachine of test/test_state_transitions.py: operating modes,    *)
(* motion warnings and their expiry, on a record self of the fields.       *)
(***************************************************************************)
MODE_OFF == 0
MODE_CONTINUOUS_ON == 1
MODE_MOTION_DETECT == 2

Modes == {MODE_OFF, MODE_CONTINUOUS_ON, MODE_MOTION_DETECT}

\* warning_duration as __init__ sets it (15 seconds).
WARNING_DURATION == 15000

\* MockStateMachine.__init__.
MockStateMachine_init ==
    [mode |-> MODE_OFF,
     mode_changes |-> 0,
     motion_events |-> 0,
     warning_active |-> FALSE,
     warning_start_time |-> 0,
     warning_duration |-> WARNING_DURATION,
     current_time_ms |-> 0,
     led_on |-> FALSE,
     led_blinking |-> FALSE]

\* MockStateMachine.advance_time.
MockStateMachine_advance_time(self, delta_ms) ==
    [self EXCEPT !.current_time_ms = @ + delta_ms]

\* Mutant: entering MOTION_DETECT leaves the LED flags as they are.
enter_mode_keeps_led(self, mode) ==
    IF mode = MODE_OFF
    THEN [self EXCEPT !.led_on = FALSE, !.led_blinking = FALSE]
    ELSE IF mode = MODE_CONTINUOUS_ON
    THEN [self EXCEPT !.led_on = TRUE, !.led_blinking = TRUE]
    ELSE self

\* MockStateMachine.enter_mode.
enter_mode(self, mode) ==
    IF mode = MODE_OFF
    THEN [self EXCEPT !.led_on = FALSE, !.led_blinking = FALSE]
    ELSE IF mode = MODE_CONTINUOUS_ON
    THEN [self EXCEPT !.led_on = TRUE, !.led_blinking = TRUE]
    ELSE IF mode = MODE_MOTION_DETECT
    THEN [self EXCEPT !.led_on = FALSE, !.led_blinking = FALSE]
    ELSE self

\* MockStateMachine.stop_warning.
stop_warning(self) ==
    [self EXCEPT !.warning_active = FALSE,
                 !.led_on = FALSE,
                 !.led_blinking = FALSE]

\* Mutant: leaving a mode keeps an active warning.
exit_mode_keeps_warning(self, mode) ==
    IF mode = MODE_CONTINUOUS_ON
    THEN [self EXCEPT !.led_blinking = FALSE]
    ELSE self

\* MockStateMachine.exit_mode.
exit_mode(self, mode) ==
    LET stopped == IF self.warning_active THEN stop_warning(self) ELSE self
    IN  IF mode = MODE_CONTINUOUS_ON
        THEN [stopped EXCEPT !.led_blinking = FALSE]
        ELSE stopped

\* Mutant: set_mode without the early return for the current mode.
MockStateMachine_set_mode_always(self, mode) ==
    enter_mode([exit_mode(self, self.mode) EXCEPT !.mode = mode,
                                                  !.mode_changes = @ + 1],
               mode)

\* MockStateMachine.set_mode.
MockStateMachine_set_mode(self, mode) ==
    IF mode = self.mode THEN self
    ELSE enter_mode([exit_mode(self, self.mode) EXCEPT !.mode = mode,
                                                       !.mode_changes = @ + 1],
                    mode)

\* MockStateMachine.trigger_warning.
trigger_warning(self) ==
    IF self.mode = MODE_MOTION_DETECT
    THEN [self EXCEPT !.warning_active = TRUE,
                      !.warning_start_time = self.current_time_ms,
                      !.led_on = TRUE,
                      !.led_blinking = TRUE,
                      !.motion_events = @ + 1]
    ELSE self

\* Mutant: the warning expires only after more than warning_duration.
MockStateMachine_update_gt(self) ==
    IF self.warning_active
       /\ self.current_time_ms - self.warning_start_time > self.warning_duration
    THEN stop_warning(self)
    ELSE self

\* MockStateMachine.update.
MockStateMachine_update(self) ==
    IF self.warning_active
       /\ self.current_time_ms - self.warning_start_time >= self.warning_duration
    THEN stop_warning(self)
    ELSE self

\* Mutant: CONTINUOUS_ON cycles straight back to OFF.
MockStateMachine_cycle_mode_skips(self) ==
    IF self.mode = MODE_OFF
    THEN MockStateMachine_set_mode(self, MODE_CONTINUOUS_ON)
    ELSE IF self.mode = MODE_CONTINUOUS_ON
    THEN MockStateMachine_set_mode(self, MODE_OFF)
    ELSE IF self.mode = MODE_MOTION_DETECT
    THEN MockStateMachine_set_mode(self, MODE_OFF)
    ELSE self

\* MockStateMachine.cycle_mode.
MockStateMachine_cycle_mode(self) ==
    IF self.mode = MODE_OFF
    THEN MockStateMachine_set_mode(self, MODE_CONTINUOUS_ON)
    ELSE IF self.mode = MODE_CONTINUOUS_ON
    THEN MockStateMachine_set_mode(self, MODE_MOTION_DETECT)
    ELSE IF self.mode = MODE_MOTION_DETECT
    THEN MockStateMachine_set_mode(self, MODE_OFF)
    ELSE self

(***************************************************************************)
(* StateMachine of test/test_logic.py, the second implementation of the   *)
(* operating modes, with OperatingMode as the values of its members.       *)
(***************************************************************************)
OFF == 0
CONTINUOUS_ON == 1
MOTION_DETECT == 2

OperatingMode == {OFF, CONTINUOUS_ON, MOTION_DETECT}

\* The warning time handle_motion adds to the clock (15 seconds).
WARNING_MS == 15000

\* StateMachine.__init__.
StateMachine_init ==
    [mode |-> OFF,
     motion_events |-> 0,
     mode_changes |-> 0,
     led_on |-> FALSE,
     warning_active |-> FALSE,
     warning_end_time |-> 0,
     time |-> 0]

\* StateMachine.advance_time.
StateMachine_advance_time(self, ms) == [self EXCEPT !.time = @ + ms]

\* The list mode_sequence of cycle_mode and its index method.
mode_sequence == <<OFF, CONTINUOUS_ON, MOTION_DETECT>>
mode_index(mode) ==
    (CHOOSE i \in 1 .. Len(mode_sequence) : mode_sequence[i] = mode) - 1

\* StateMachine.cycle_mode.
StateMachine_cycle_mode(self) ==
    LET current_index == mode_index(self.mode)
        next_index == (current_index + 1) % Len(mode_sequence)
        mode == mode_sequence[next_index + 1]
    IN  [self EXCEPT !.mode = mode,
                     !.mode_changes = @ + 1,
                     !.led_on = (mode = CONTINUOUS_ON)]

\* StateMachine.set_mode.
StateMachine_set_mode(self, new_mode) ==
    IF self.mode # new_mode
    THEN [self EXCEPT !.mode = new_mode,
                      !.mode_changes = @ + 1,
                      !.led_on = (new_mode = CONTINUOUS_ON)]
    ELSE self

\* StateMachine.handle_motion.
handle_motion(self) ==
    IF self.mode = MOTION_DETECT
    THEN [self EXCEPT !.motion_events = @ + 1,
                      !.warning_active = TRUE,
                      !.warning_end_time = self.time + WARNING_MS]
    ELSE self

\* What the callers have done with a state machine that was never called.
NoCalls == [op |-> "__init__", arg |-> -1, n_calls |-> 0, n_cycles |-> 0]

\* The two state machines, constructed and left alone.
StateMachinesConstructed ==
    /\ sm = MockStateMachine_init
    /\ sm_history = NoCalls
    /\ logic_sm = StateMachine_init
    /\ logic_history = NoCalls

(***************************************************************************)
(* MockLED of test/test_hal_led_timing.py: LED patterns, their blink       *)
(* intervals and their duration limit, on a record self of the fields.     *)
(***************************************************************************)
PATTERN_OFF == 0
PATTERN_ON == 1
PATTERN_BLINK_FAST == 2
PATTERN_BLINK_SLOW == 3
PATTERN_BLINK_WARNING == 4
PATTERN_PULSE == 5
PATTERN_CUSTOM == 6

Patterns ==
    {PATTERN_OFF, PATTERN_ON, PATTERN_BLINK_FAST, PATTERN_BLINK_SLOW,
     PATTERN_BLINK_WARNING, PATTERN_PULSE, PATTERN_CUSTOM}

\* The patterns update() toggles.
BlinkPatterns ==
    {PATTERN_BLINK_FAST, PATTERN_BLINK_SLOW, PATTERN_BLINK_WARNING,
     PATTERN_CUSTOM}

LED_BLINK_FAST_MS == 250
LED_BLINK_SLOW_MS == 1000
LED_BLINK_WARNING_MS == 500

LED_BRIGHTNESS_OFF == 0
LED_BRIGHTNESS_DIM == 20
LED_BRIGHTNESS_MEDIUM == 128
LED_BRIGHTNESS_FULL == 255

DEFAULT_LED_PIN == 3
DEFAULT_PWM_CHANNEL == 0
DEFAULT_CUSTOM_MS == 500

\* MockLED.__init__.
MockLED_init(pin, pwm_channel) ==
    [pin |-> pin,
     pwm_channel |-> pwm_channel,
     initialized |-> FALSE,
     current_pattern |-> PATTERN_OFF,
     brightness |-> 0,
     is_on |-> FALSE,
     pattern_start_time |-> 0,
     pattern_duration |-> 0,
     last_toggle_time |-> 0,
     pattern_state |-> FALSE,
     custom_on_ms |-> DEFAULT_CUSTOM_MS,
     custom_off_ms |-> DEFAULT_CUSTOM_MS,
     current_time_ms |-> 0]

\* MockLED.begin.
MockLED_begin(self) == [self EXCEPT !.initialized = TRUE]

\* MockLED.advance_time.
MockLED_advance_time(self, delta_ms) ==
    [self EXCEPT !.current_time_ms = @ + delta_ms]

\* MockLED.get_pattern_interval.
get_pattern_interval(self) ==
    IF self.current_pattern = PATTERN_BLINK_FAST THEN LED_BLINK_FAST_MS
    ELSE IF self.current_pattern = PATTERN_BLINK_SLOW THEN LED_BLINK_SLOW_MS
    ELSE IF self.current_pattern = PATTERN_BLINK_WARNING
    THEN LED_BLINK_WARNING_MS
    ELSE IF self.current_pattern = PATTERN_CUSTOM
    THEN (IF self.pattern_state THEN self.custom_on_ms ELSE self.custom_off_ms)
    ELSE 0

\* MockLED.on.
MockLED_on(self, brightness) ==
    [self EXCEPT !.brightness = brightness,
                 !.is_on = TRUE,
                 !.current_pattern = PATTERN_ON]

\* MockLED.off.
MockLED_off(self) ==
    [self EXCEPT !.brightness = 0,
                 !.is_on = FALSE,
                 !.current_pattern = PATTERN_OFF]

\* MockLED.set_brightness.
set_brightness(self, brightness) == [self EXCEPT !.brightness = brightness]

\* MockLED.start_pattern.
start_pattern(self, pattern, duration_ms) ==
    LET started == [self EXCEPT !.current_pattern = pattern,
                                !.pattern_start_time = self.current_time_ms,
                                !.pattern_duration = duration_ms,
                                !.last_toggle_time = self.current_time_ms,
                                !.pattern_state = FALSE]
    IN  IF pattern = PATTERN_OFF THEN MockLED_off(started)
        ELSE IF pattern = PATTERN_ON
        THEN MockLED_on(started, LED_BRIGHTNESS_FULL)
        ELSE started

\* MockLED.stop_pattern.
stop_pattern(self) ==
    MockLED_off([self EXCEPT !.current_pattern = PATTERN_OFF,
                             !.pattern_duration = 0])

\* MockLED.is_pattern_active.
is_pattern_active(self) == self.current_pattern # PATTERN_OFF

\* MockLED.set_custom_pattern.
set_custom_pattern(self, on_ms, off_ms) ==
    [self EXCEPT !.custom_on_ms = on_ms, !.custom_off_ms = off_ms]

\* The pattern logic of MockLED.update: a blink pattern toggles once its
\* interval has passed since the last toggle.
process_pattern(self) ==
    IF /\ self.current_pattern \in BlinkPatterns
       /\ self.current_time_ms - self.last_toggle_time
              >= get_pattern_interval(self)
    THEN [self EXCEPT !.pattern_state = ~self.pattern_state,
                      !.last_toggle_time = self.current_time_ms,
                      !.brightness = IF ~self.pattern_state
                                     THEN LED_BRIGHTNESS_FULL ELSE 0,
                      !.is_on = ~self.pattern_state]
    ELSE self

\* Mutant: the pattern expires only after its duration has been exceeded.
MockLED_update_gt(self) ==
    IF ~self.initialized THEN self
    ELSE IF /\ self.pattern_duration > 0
            /\ self.current_time_ms - self.pattern_start_time
                   > self.pattern_duration
    THEN stop_pattern(self)
    ELSE process_pattern(self)

\* MockLED.update.
MockLED_update(self) ==
    IF ~self.initialized THEN self
    ELSE IF /\ self.pattern_duration > 0
            /\ self.current_time_ms - self.pattern_start_time
                   >= self.pattern_duration
    THEN stop_pattern(self)
    ELSE process_pattern(self)

\* What the callers have done with an LED that was never called.
NoLedCalls ==
    [op |-> "__init__", args |-> << >>, started |-> FALSE, stopped |-> FALSE,
     n_calls |-> 0]

\* A MockLED constructed with the default arguments and left alone.
LedConstructed ==
    /\ led = MockLED_init(DEFAULT_LED_PIN, DEFAULT_PWM_CHANNEL)
    /\ led_history = NoLedCalls

(***************************************************************************)
(* MockLogger of test/test_logger.py: level filtering and the circular     *)
(* buffer of entries, on a record self of the fields.  A message is the    *)
(* sequence of its characters; the list self.buffer, indexed from 0 in the *)
(* source, is a sequence indexed from 1.                                   *)
(***************************************************************************)
LEVEL_DEBUG == 0
LEVEL_INFO == 1
LEVEL_WARN == 2
LEVEL_ERROR == 3
LEVEL_NONE == 4

LogLevels == {LEVEL_DEBUG, LEVEL_INFO, LEVEL_WARN, LEVEL_ERROR, LEVEL_NONE}

BUFFER_SIZE == 256

\* The characters LogEntry keeps of a message, message[:127].
MESSAGE_CHARS == 127

\* MockLogger.LogEntry.__init__.
LogEntry(timestamp, level, message) ==
    [timestamp |-> timestamp,
     level |-> level,
     message |-> IF Len(message) <= MESSAGE_CHARS THEN message
                 ELSE SubSeq(message, 1, MESSAGE_CHARS)]

\* The None that get_entry returns for an index without an entry.
NoLogEntry == [timestamp |-> -1, level |-> -1, message |-> << >>]

\* MockLogger.__init__.
MockLogger_init ==
    [level |-> LEVEL_INFO,
     serial_enabled |-> TRUE,
     file_enabled |-> FALSE,
     buffer |-> << >>,
     buffer_head |-> 0,
     buffer_tail |-> 0,
     total_entries |-> 0,
     current_time_ms |-> 0,
     serial_output |-> << >>]

\* MockLogger.advance_time.
MockLogger_advance_time(self, delta_ms) ==
    [self EXCEPT !.current_time_ms = @ + delta_ms]

\* MockLogger.set_level.
set_level(self, level) == [self EXCEPT !.level = level]

\* MockLogger.set_serial_enabled.
set_serial_enabled(self, enabled) == [self EXCEPT !.serial_enabled = enabled]

\* MockLogger.set_file_enabled.
set_file_enabled(self, enabled) == [self EXCEPT !.file_enabled = enabled]

\* MockLogger._get_level_name.
_get_level_name(level) ==
    IF level = LEVEL_DEBUG THEN "DEBUG"
    ELSE IF level = LEVEL_INFO THEN "INFO "
    ELSE IF level = LEVEL_WARN THEN "WARN "
    ELSE IF level = LEVEL_ERROR THEN "ERROR"
    ELSE IF level = LEVEL_NONE THEN "NONE "
    ELSE "?????"

\* MockLogger._format_timestamp: the hours, minutes, seconds and
\* milliseconds that the format string prints.
_format_timestamp(timestamp) ==
    LET seconds == timestamp \div 1000
        minutes == seconds \div 60
        hours == minutes \div 60
    IN  [hours |-> hours % 24,
         minutes |-> minutes % 60,
         seconds |-> seconds % 60,
         ms |-> timestamp % 1000]

\* The line _add_entry writes to the serial output.
serial_line(timestamp, level, message) ==
    [timestamp |-> _format_timestamp(timestamp),
     level_name |-> _get_level_name(level),
     message |-> message]

\* Mutant: a full buffer replaces its oldest entry without moving the tail.
add_entry_keeps_tail(self, level, message) ==
    LET entry == LogEntry(self.current_time_ms, level, message)
        full == Len(self.buffer) >= BUFFER_SIZE
    IN  [self EXCEPT
             !.buffer = IF ~full THEN Append(self.buffer, entry)
                        ELSE [self.buffer EXCEPT ![self.buffer_head + 1] = entry],
             !.buffer_head = (self.buffer_head + 1) % BUFFER_SIZE,
             !.total_entries = @ + 1,
             !.serial_output =
                 IF self.serial_enabled
                 THEN Append(@, serial_line(entry.timestamp, level, message))
                 ELSE @]

\* MockLogger._add_entry.
_add_entry(self, level, message) ==
    LET entry == LogEntry(self.current_time_ms, level, message)
        full == Len(self.buffer) >= BUFFER_SIZE
    IN  [self EXCEPT
             !.buffer = IF ~full THEN Append(self.buffer, entry)
                        ELSE [self.buffer EXCEPT ![self.buffer_head + 1] = entry],
             !.buffer_tail = IF ~full THEN @ ELSE (@ + 1) % BUFFER_SIZE,
             !.buffer_head = (self.buffer_head + 1) % BUFFER_SIZE,
             !.total_entries = @ + 1,
             !.serial_output =
                 IF self.serial_enabled
                 THEN Append(@, serial_line(entry.timestamp, level, message))
                 ELSE @]

\* MockLogger.debug.
debug(self, message) ==
    IF self.level <= LEVEL_DEBUG THEN _add_entry(self, LEVEL_DEBUG, message)
    ELSE self

\* MockLogger.info.
info(self, message) ==
    IF self.level <= LEVEL_INFO THEN _add_entry(self, LEVEL_INFO, message)
    ELSE self

\* MockLogger.warn.
warn(self, message) ==
    IF self.level <= LEVEL_WARN THEN _add_entry(self, LEVEL_WARN, message)
    ELSE self

\* MockLogger.error.
error(self, message) ==
    IF self.level <= LEVEL_ERROR THEN _add_entry(self, LEVEL_ERROR, message)
    ELSE self

\* MockLogger.get_entry_count.
get_entry_count(self) ==
    IF self.total_entries < BUFFER_SIZE THEN self.total_entries
    ELSE BUFFER_SIZE

\* MockLogger.get_entry.
get_entry(self, index) ==
    LET count == get_entry_count(self)
        buffer_index == (self.buffer_tail + index) % BUFFER_SIZE
    IN  IF index >= count THEN NoLogEntry
        ELSE IF buffer_index < Len(self.buffer)
        THEN self.buffer[buffer_index + 1]
        ELSE NoLogEntry

\* MockLogger.clear.
clear(self) ==
    [self EXCEPT !.buffer = << >>,
                 !.buffer_head = 0,
                 !.buffer_tail = 0,
                 !.total_entries = 0,
                 !.serial_output = << >>]

\* What the callers have done with a logger that was never called: the
\* entries accepted since the last clear and the calls made.
NoLogCalls == [op |-> "__init__", accepted |-> << >>, n_calls |-> 0]

\* A MockLogger constructed and left alone.
LoggerConstructed ==
    /\ logger = MockLogger_init
    /\ logger_history = NoLogCalls

\* The other objects, constructed and left alone.
OthersConstructed ==
    /\ ButtonConstructed
    /\ StateMachinesConstructed
    /\ LedConstructed
    /\ LoggerConstructed

(***************************************************************************)
(* Initial states.                                                         *)
(***************************************************************************)
\* __init__ apart from the thresholds.
InitRegistry ==
    /\ modules = << >>
    /\ order = << >>
    /\ hw_wdt_fed = FALSE
    /\ hw_wdt_feed_count = 0
    /\ system_rebooted = FALSE
    /\ recovery_actions_taken = << >>
    /\ recovery_calls = << >>
    /\ last_call = [op |-> "__init__", arg |-> -1, ret |-> -1]
    /\ n_updates = 0
    /\ n_registers = 0

\* __init__: the state after construction.
Init ==
    /\ InitRegistry
    /\ soft_recovery_threshold = DEFAULT_SOFT_RECOVERY_THRESHOLD
    /\ module_restart_threshold = DEFAULT_MODULE_RESTART_THRESHOLD
    /\ system_recovery_threshold = DEFAULT_SYSTEM_RECOVERY_THRESHOLD
    /\ OthersConstructed

(***************************************************************************)
(* Operations.                                                             *)
(***************************************************************************)

\* Mutant: re-registration keeps the counters of the record it replaces.
register_module_keeps_counters(module_id, check_func, recovery_func) ==
    /\ modules' = [m \in DOMAIN modules \cup {module_id} |->
                     IF m = module_id
                     THEN [check_func |-> check_func,
                           recovery_func |-> recovery_func,
                           status |-> HEALTH_OK,
                           failure_count |->
                               IF m \in DOMAIN modules
                               THEN modules[m].failure_count ELSE 0,
                           total_failures |->
                               IF m \in DOMAIN modules
                               THEN modules[m].total_failures ELSE 0,
                           message |-> "None"]
                     ELSE modules[m]]
    /\ order' = IF module_id \in DOMAIN modules THEN order
                ELSE Append(order, module_id)
    /\ last_call' = [op |-> "register_module", arg |-> module_id, ret |-> -1]
    /\ n_registers' = n_registers + 1
    /\ UNCHANGED <<hw_wdt_fed, hw_wdt_feed_count, system_rebooted,
                   recovery_actions_taken, recovery_calls, thresholds, n_updates>>

\* Mutant: registration polls the health check of the new module once.
register_module_polling(module_id, check_func, recovery_func) ==
    /\ modules' = [m \in DOMAIN modules \cup {module_id} |->
                     IF m = module_id
                     THEN [check_func |-> check_func,
                           recovery_func |-> recovery_func,
                           status |-> IF check_func = "check_critical"
                                      THEN HEALTH_CRITICAL ELSE HEALTH_OK,
                           failure_count |-> 0,
                           total_failures |-> 0,
                           message |-> "None"]
                     ELSE modules[m]]
    /\ order' = IF module_id \in DOMAIN modules THEN order
                ELSE Append(order, module_id)
    /\ last_call' = [op |-> "register_module", arg |-> module_id, ret |-> -1]
    /\ n_registers' = n_registers + 1
    /\ UNCHANGED <<hw_wdt_fed, hw_wdt_feed_count, system_rebooted,
                   recovery_actions_taken, recovery_calls, thresholds, n_updates>>

\* Mutant: a registration clears the fed flag and the reboot flag.
register_module_resets_flags(module_id, check_func, recovery_func) ==
    /\ modules' = [m \in DOMAIN modules \cup {module_id} |->
                     IF m = module_id
                     THEN [check_func |-> check_func,
                           recovery_func |-> recovery_func,
                           status |-> HEALTH_OK,
                           failure_count |-> 0,
                           total_failures |-> 0,
                           message |-> "None"]
                     ELSE modules[m]]
    /\ order' = IF module_id \in DOMAIN modules THEN order
                ELSE Append(order, module_id)
    /\ last_call' = [op |-> "register_module", arg |-> module_id, ret |-> -1]
    /\ n_registers' = n_registers + 1
    /\ hw_wdt_fed' = FALSE
    /\ system_rebooted' = FALSE
    /\ UNCHANGED <<hw_wdt_feed_count, recovery_actions_taken, recovery_calls,
                   thresholds, n_updates>>

\* register_module(module_id, check_func, recovery_func)
register_module(module_id, check_func, recovery_func) ==
    /\ modules' = [m \in DOMAIN modules \cup {module_id} |->
                     IF m = module_id
                     THEN [check_func |-> check_func,
                           recovery_func |-> recovery_func,
                           status |-> HEALTH_OK,
                           failure_count |-> 0,
                           total_failures |-> 0,
                           message |-> "None"]
                     ELSE modules[m]]
    /\ order' = IF module_id \in DOMAIN modules THEN order
                ELSE Append(order, module_id)
    /\ last_call' = [op |-> "register_module", arg |-> module_id, ret |-> -1]
    /\ n_registers' = n_registers + 1
    /\ UNCHANGED <<hw_wdt_fed, hw_wdt_feed_count, system_rebooted,
                   recovery_actions_taken, recovery_calls, thresholds, n_updates>>

\* feed_hw_watchdog, as the new values of (hw_wdt_fed, hw_wdt_feed_count).
feed_hw_watchdog == <<TRUE, hw_wdt_feed_count + 1>>

\* update() with the given health check results.
update(results) ==
    LET self == poll_modules(self_state, order, 1, results)
        fed == IF is_healthy(self.modules, order) THEN feed_hw_watchdog
               ELSE <<hw_wdt_fed, hw_wdt_feed_count>>
    IN  /\ modules' = self.modules
        /\ recovery_actions_taken' = self.recovery_actions_taken
        /\ system_rebooted' = self.system_rebooted
        /\ recovery_calls' = self.recovery_calls
        /\ hw_wdt_fed' = fed[1]
        /\ hw_wdt_feed_count' = fed[2]
        /\ last_call' = [op |-> "update", arg |-> -1, ret |-> -1]
        /\ n_updates' = n_updates + 1
        /\ UNCHANGED <<order, thresholds, n_registers>>

\* A caller's get_module_health(module_id): the result is recorded, the
\* manager is left as it is.
query_module_health(module_id) ==
    /\ last_call' = [op |-> "get_module_health", arg |-> module_id,
                     ret |-> get_module_health(modules, module_id)]
    /\ UNCHANGED <<modules, order, hw_wdt_fed, hw_wdt_feed_count,
                   system_rebooted, recovery_actions_taken, recovery_calls,
                   thresholds, n_updates, n_registers>>

\* The scheduler's and the callers' steps, within the caps.
Register ==
    /\ n_registers + n_updates < MaxCalls
    /\ \E module_id \in ModuleIds, args \in RegisterArgs :
           register_module(module_id, args[1], args[2])
    /\ UNCHANGED other_objects

Update ==
    /\ n_registers + n_updates < MaxCalls
    /\ \E results \in TickResults : update(results)
    /\ UNCHANGED other_objects

Next == Register \/ Update

Spec == Init /\ [][Next]_vars

(***************************************************************************)
(* The manager with its callers' queries.                                  *)
(***************************************************************************)
RegisterQ ==
    /\ n_registers + n_updates < MaxQueryCalls
    /\ \E module_id \in ModuleIds, args \in RegisterArgs :
           register_module(module_id, args[1], args[2])
    /\ UNCHANGED other_objects

UpdateQ ==
    /\ n_registers + n_updates < MaxQueryCalls
    /\ \E results \in TickResults : update(results)
    /\ UNCHANGED other_objects

GetModuleHealth ==
    /\ last_call.op # "get_module_health"
    /\ \E module_id \in ModuleIds : query_module_health(module_id)
    /\ UNCHANGED other_objects

NextQuery == RegisterQ \/ UpdateQ \/ GetModuleHealth

SpecQuery == Init /\ [][NextQuery]_vars

(***************************************************************************)
(* One module, registered at startup and then polled for many ticks, with  *)
(* the thresholds of __init__.                                             *)
(***************************************************************************)
RegisterOne ==
    /\ n_registers = 0
    /\ \E args \in RegisterArgs :
           register_module(MODULE_STATE_MACHINE, args[1], args[2])
    /\ UNCHANGED other_objects

UpdateDeep ==
    /\ n_registers > 0
    /\ n_updates < MaxDeepTicks
    /\ \E results \in TickResults : update(results)
    /\ UNCHANGED other_objects

NextDeep == RegisterOne \/ UpdateDeep

SpecDeep == Init /\ [][NextDeep]_vars

\* The same with the firmware main loop calling update() on every tick: an
\* update() that can be called is eventually called.
SpecDeepFair == Init /\ [][NextDeep]_vars /\ WF_vars(UpdateDeep)

(***************************************************************************)
(* One module that is registered again, up to MaxReregisters times, at any *)
(* point of up to MaxReregTicks ticks, under the default thresholds.       *)
(***************************************************************************)
RegisterAgain ==
    /\ n_registers <= MaxReregisters
    /\ \E args \in RegisterArgs :
           register_module(MODULE_STATE_MACHINE, args[1], args[2])
    /\ UNCHANGED other_objects

UpdateRereg ==
    /\ n_registers > 0
    /\ n_updates < MaxReregTicks
    /\ \E results \in TickResults : update(results)
    /\ UNCHANGED other_objects

NextRereg == RegisterAgain \/ UpdateRereg

SpecRereg == Init /\ [][NextRereg]_vars

(***************************************************************************)
(* One module under configured thresholds: the three threshold attributes  *)
(* are set before the first tick to any values up to MaxThreshold.         *)
(***************************************************************************)
InitCfg ==
    /\ InitRegistry
    /\ soft_recovery_threshold \in 1 .. MaxThreshold
    /\ module_restart_threshold \in 1 .. MaxThreshold
    /\ system_recovery_threshold \in 1 .. MaxThreshold
    /\ OthersConstructed

UpdateCfg ==
    /\ n_registers > 0
    /\ n_updates < MaxThreshold + 1
    /\ \E results \in TickResults : update(results)
    /\ UNCHANGED other_objects

NextCfg == RegisterOne \/ UpdateCfg

SpecCfg == InitCfg /\ [][NextCfg]_vars

(***************************************************************************)
(* A MockButton driven by its test: the constructor arguments are drawn up *)
(* to MaxDebounceMs and MaxLongPressMs, the simulated clock advances in    *)
(* steps of up to MaxDeltaMs until MaxTimeMs, the pin is pressed and       *)
(* released at will, and update(), get_next_event() and                    *)
(* reset_click_count() are called in any order.  The watchdog manager is   *)
(* left as constructed.                                                    *)
(***************************************************************************)
WatchdogConstructed ==
    /\ InitRegistry
    /\ soft_recovery_threshold = DEFAULT_SOFT_RECOVERY_THRESHOLD
    /\ module_restart_threshold = DEFAULT_MODULE_RESTART_THRESHOLD
    /\ system_recovery_threshold = DEFAULT_SYSTEM_RECOVERY_THRESHOLD

InitButton ==
    /\ WatchdogConstructed
    /\ \E debounce_ms \in 1 .. MaxDebounceMs, long_press_ms \in 1 .. MaxLongPressMs :
           button = MockButton_init(DEFAULT_PIN, debounce_ms, long_press_ms)
    /\ button_history = NoButtonHistory
    /\ StateMachinesConstructed
    /\ LedConstructed
    /\ LoggerConstructed

\* The events a call has appended to the queue.
pushed_by(before, after) ==
    SubSeq(after.event_queue, Len(before.event_queue) + 1,
           Len(after.event_queue))

Begin ==
    /\ ~button.initialized
    /\ button' = begin(button)
    /\ button_history' = [button_history EXCEPT !.op = "begin"]
    /\ UNCHANGED <<watchdog_vars, sm_vars, led_vars, logger_vars>>

AdvanceTime ==
    /\ \E delta_ms \in 1 .. MaxDeltaMs :
           /\ button.current_time_ms + delta_ms <= MaxTimeMs
           /\ button' = MockButton_advance_time(button, delta_ms)
    /\ button_history' = [button_history EXCEPT !.op = "advance_time"]
    /\ UNCHANGED <<watchdog_vars, sm_vars, led_vars, logger_vars>>

MockPress ==
    /\ ~button.raw_state
    /\ button' = mock_press(button)
    /\ button_history' = [button_history EXCEPT !.op = "mock_press"]
    /\ UNCHANGED <<watchdog_vars, sm_vars, led_vars, logger_vars>>

MockRelease ==
    /\ button.raw_state
    /\ button' = mock_release(button)
    /\ button_history' = [button_history EXCEPT !.op = "mock_release"]
    /\ UNCHANGED <<watchdog_vars, sm_vars, led_vars, logger_vars>>

ButtonUpdate ==
    /\ button' = MockButton_update(button)
    /\ button_history' =
           [button_history EXCEPT
                !.op = "update",
                !.pushed = @ \o pushed_by(button, MockButton_update(button))]
    /\ UNCHANGED <<watchdog_vars, sm_vars, led_vars, logger_vars>>

GetNextEvent ==
    /\ button' = get_next_event(button)[2]
    /\ button_history' = [button_history EXCEPT
                              !.op = "get_next_event",
                              !.ret = get_next_event(button)[1]]
    /\ UNCHANGED <<watchdog_vars, sm_vars, led_vars, logger_vars>>

ResetClickCount ==
    /\ button.click_count > 0
    /\ button' = reset_click_count(button)
    /\ button_history' = [button_history EXCEPT
                              !.op = "reset_click_count",
                              !.reset_at = Len(button_history.pushed)]
    /\ UNCHANGED <<watchdog_vars, sm_vars, led_vars, logger_vars>>

NextButton ==
    \/ Begin
    \/ AdvanceTime
    \/ MockPress
    \/ MockRelease
    \/ ButtonUpdate
    \/ GetNextEvent
    \/ ResetClickCount

SpecButton == InitButton /\ [][NextButton]_vars

(***************************************************************************)
(* The two state machines driven through their modes by a caller that      *)
(* cycles, sets the mode and reports motion, MaxModeCalls calls in all.    *)
(* The clocks stand still; the watchdog and the button are left alone.     *)
(***************************************************************************)
InitModes ==
    /\ WatchdogConstructed
    /\ ButtonConstructed
    /\ StateMachinesConstructed
    /\ LedConstructed
    /\ LoggerConstructed

\* A call op(arg) on the MockStateMachine that leaves it as self.
sm_call(op, arg, self) ==
    /\ sm' = self
    /\ sm_history' = [op |-> op, arg |-> arg,
                      n_calls |-> sm_history.n_calls + 1,
                      n_cycles |-> sm_history.n_cycles +
                                       (IF op = "cycle_mode" THEN 1 ELSE 0)]
    /\ UNCHANGED <<watchdog_vars, button_vars, logic_sm, logic_history, led_vars,
                 logger_vars>>

\* A call op(arg) on the StateMachine of test_logic that leaves it as self.
logic_call(op, arg, self) ==
    /\ logic_sm' = self
    /\ logic_history' = [op |-> op, arg |-> arg,
                         n_calls |-> logic_history.n_calls + 1,
                         n_cycles |-> logic_history.n_cycles +
                                          (IF op = "cycle_mode" THEN 1 ELSE 0)]
    /\ UNCHANGED <<watchdog_vars, button_vars, sm, sm_history, led_vars,
                 logger_vars>>

ModeBudget == sm_history.n_calls + logic_history.n_calls < MaxModeCalls

CycleMode ==
    /\ ModeBudget
    /\ sm_call("cycle_mode", -1, MockStateMachine_cycle_mode(sm))

SetMode ==
    /\ ModeBudget
    /\ \E mode \in Modes :
           sm_call("set_mode", mode, MockStateMachine_set_mode(sm, mode))

TriggerWarning ==
    /\ ModeBudget
    /\ sm_call("trigger_warning", -1, trigger_warning(sm))

LogicCycleMode ==
    /\ ModeBudget
    /\ logic_call("cycle_mode", -1, StateMachine_cycle_mode(logic_sm))

LogicSetMode ==
    /\ ModeBudget
    /\ \E new_mode \in OperatingMode :
           logic_call("set_mode", new_mode,
                      StateMachine_set_mode(logic_sm, new_mode))

HandleMotion ==
    /\ ModeBudget
    /\ logic_call("handle_motion", -1, handle_motion(logic_sm))

NextModes ==
    \/ CycleMode
    \/ SetMode
    \/ TriggerWarning
    \/ LogicCycleMode
    \/ LogicSetMode
    \/ HandleMotion

SpecModes == InitModes /\ [][NextModes]_vars

(***************************************************************************)
(* The MockStateMachine with its clock: mode changes, motion warnings,     *)
(* time steps around warning_duration and update(), MaxWarningCalls calls  *)
(* in all.                                                                 *)
(***************************************************************************)
\* The steps of the simulated clock: 1 ms, 14999 ms and 15000 ms.
TimeSteps == {1, WARNING_DURATION - 1, WARNING_DURATION}

WarningBudget == sm_history.n_calls < MaxWarningCalls

CycleModeW ==
    /\ WarningBudget
    /\ sm_call("cycle_mode", -1, MockStateMachine_cycle_mode(sm))

SetModeW ==
    /\ WarningBudget
    /\ \E mode \in Modes :
           sm_call("set_mode", mode, MockStateMachine_set_mode(sm, mode))

TriggerWarningW ==
    /\ WarningBudget
    /\ sm_call("trigger_warning", -1, trigger_warning(sm))

AdvanceTimeW ==
    /\ WarningBudget
    /\ \E delta_ms \in TimeSteps :
           sm_call("advance_time", delta_ms,
                   MockStateMachine_advance_time(sm, delta_ms))

UpdateW ==
    /\ WarningBudget
    /\ sm_call("update", -1, MockStateMachine_update(sm))

NextWarning ==
    \/ CycleModeW
    \/ SetModeW
    \/ TriggerWarningW
    \/ AdvanceTimeW
    \/ UpdateW

SpecWarning == InitModes /\ [][NextWarning]_vars

(***************************************************************************)
(* The LED driven by a caller that begins it, advances its clock by the    *)
(* steps of LedTimeSteps, starts and stops patterns, switches it on and    *)
(* off and calls update(), MaxLedCalls calls in all.  The other objects    *)
(* are left alone.                                                         *)
(***************************************************************************)
InitLed ==
    /\ WatchdogConstructed
    /\ ButtonConstructed
    /\ StateMachinesConstructed
    /\ LedConstructed
    /\ LoggerConstructed

\* The steps of the simulated clock, the durations patterns are started
\* with and the on and off times of custom patterns.
LedTimeSteps == {1, LED_BLINK_FAST_MS, LED_BLINK_SLOW_MS}
LedDurations == {0, LED_BLINK_WARNING_MS}
CustomTimes == {<<LED_BLINK_FAST_MS, 1>>}

\* A call op(args) on the MockLED that leaves it as self; the call has
\* stopped a pattern when one was active before it and none is after it,
\* and the current pattern is a started one from the start_pattern of a
\* pattern other than PATTERN_OFF until a call replaces or ends it.
led_call(op, args, self) ==
    /\ led_history.n_calls < MaxLedCalls
    /\ led' = self
    /\ led_history' = [op |-> op, args |-> args,
                       started |-> IF op = "start_pattern"
                                   THEN is_pattern_active(self)
                                   ELSE /\ led_history.started
                                        /\ self.current_pattern
                                               = led.current_pattern,
                       stopped |-> is_pattern_active(led)
                                       /\ ~is_pattern_active(self),
                       n_calls |-> led_history.n_calls + 1]
    /\ UNCHANGED <<watchdog_vars, button_vars, sm_vars, logger_vars>>

LedBegin ==
    /\ ~led.initialized
    /\ led_call("begin", << >>, MockLED_begin(led))

LedAdvanceTime ==
    \E delta_ms \in LedTimeSteps :
        led_call("advance_time", <<delta_ms>>,
                 MockLED_advance_time(led, delta_ms))

LedUpdate == led_call("update", << >>, MockLED_update(led))

LedOn == led_call("on", << >>, MockLED_on(led, LED_BRIGHTNESS_FULL))

LedOff == led_call("off", << >>, MockLED_off(led))

SetBrightness ==
    \E brightness \in {LED_BRIGHTNESS_DIM} :
        led_call("set_brightness", <<brightness>>,
                 set_brightness(led, brightness))

StartPattern ==
    \E pattern \in Patterns, duration_ms \in LedDurations :
        led_call("start_pattern", <<pattern, duration_ms>>,
                 start_pattern(led, pattern, duration_ms))

StopPattern == led_call("stop_pattern", << >>, stop_pattern(led))

SetCustomPattern ==
    \E times \in CustomTimes :
        led_call("set_custom_pattern", times,
                 set_custom_pattern(led, times[1], times[2]))

NextLed ==
    \/ LedBegin
    \/ LedAdvanceTime
    \/ LedUpdate
    \/ LedOn
    \/ LedOff
    \/ SetBrightness
    \/ StartPattern
    \/ StopPattern
    \/ SetCustomPattern

SpecLed == InitLed /\ [][NextLed]_vars

(***************************************************************************)
(* The logger driven past the size of its buffer.  The caller chooses its  *)
(* calls freely for the first MaxMixedLogCalls calls, then logs numbered   *)
(* messages with info() as the wraparound test does until BUFFER_SIZE      *)
(* calls are made, and then logs through any method or clears the buffer   *)
(* for MaxExtraLogs more calls.  The other objects are left alone.         *)
(***************************************************************************)
InitLogger ==
    /\ WatchdogConstructed
    /\ ButtonConstructed
    /\ StateMachinesConstructed
    /\ LedConstructed
    /\ LoggerConstructed

MaxLogCalls == BUFFER_SIZE + MaxExtraLogs

Mixing == logger_history.n_calls < MaxMixedLogCalls
Wrapping == logger_history.n_calls >= BUFFER_SIZE

\* The message of the call after n calls: its number, alone or repeated
\* beyond the characters an entry keeps.
ShortMessage(n) == <<n>>
LongMessage(n) == [i \in 1 .. MESSAGE_CHARS + 1 |-> n]

LogMethods == {"debug", "info", "warn", "error"}

\* The level a method logs at.
method_level(method) ==
    IF method = "debug" THEN LEVEL_DEBUG
    ELSE IF method = "info" THEN LEVEL_INFO
    ELSE IF method = "warn" THEN LEVEL_WARN
    ELSE LEVEL_ERROR

\* The call of one of the four logging methods.
log_method(self, method, message) ==
    IF method = "debug" THEN debug(self, message)
    ELSE IF method = "info" THEN info(self, message)
    ELSE IF method = "warn" THEN warn(self, message)
    ELSE error(self, message)

\* A call op on the MockLogger that leaves it as self, after which the
\* entries accepted since the last clear are accepted.
logger_call(op, self, accepted) ==
    /\ logger_history.n_calls < MaxLogCalls
    /\ logger' = self
    /\ logger_history' = [op |-> op, accepted |-> accepted,
                          n_calls |-> logger_history.n_calls + 1]
    /\ UNCHANGED <<watchdog_vars, button_vars, sm_vars, led_vars>>

\* A logging call; it is accepted when the method's level passes the filter.
Log ==
    \E method \in (IF Mixing \/ Wrapping THEN LogMethods ELSE {"info"}),
       message \in (IF Mixing
                    THEN {ShortMessage(logger_history.n_calls),
                          LongMessage(logger_history.n_calls)}
                    ELSE {ShortMessage(logger_history.n_calls)}) :
        logger_call(method, log_method(logger, method, message),
                    IF logger.level <= method_level(method)
                    THEN Append(logger_history.accepted,
                                LogEntry(logger.current_time_ms,
                                         method_level(method), message))
                    ELSE logger_history.accepted)

SetLevel ==
    /\ Mixing
    /\ \E level \in LogLevels :
           logger_call("set_level", set_level(logger, level),
                       logger_history.accepted)

SetSerialEnabled ==
    /\ Mixing
    /\ \E enabled \in BOOLEAN :
           logger_call("set_serial_enabled", set_serial_enabled(logger, enabled),
                       logger_history.accepted)

SetFileEnabled ==
    /\ Mixing
    /\ \E enabled \in BOOLEAN :
           logger_call("set_file_enabled", set_file_enabled(logger, enabled),
                       logger_history.accepted)

LoggerAdvanceTime ==
    /\ Mixing
    /\ logger_call("advance_time", MockLogger_advance_time(logger, 1),
                   logger_history.accepted)

Clear ==
    /\ Mixing \/ Wrapping
    /\ logger_call("clear", clear(logger), << >>)

NextLogger ==
    \/ Log
    \/ SetLevel
    \/ SetSerialEnabled
    \/ SetFileEnabled
    \/ LoggerAdvanceTime
    \/ Clear

SpecLogger == InitLogger /\ [][NextLogger]_vars

(***************************************************************************)
(* Properties.                                                             *)
(***************************************************************************)
Failure == {HEALTH_CRITICAL, HEALTH_FAILED}

\* A step is a tick exactly when it is an update() call.
Tick == n_updates' = n_updates + 1

\* The entries a step appends to recovery_actions_taken.
Appended ==
    SubSeq(recovery_actions_taken', Len(recovery_actions_taken) + 1,
           Len(recovery_actions_taken'))

LastAction == recovery_actions_taken[Len(recovery_actions_taken)].action

\* C1 (feed gating): every update() raises hw_wdt_feed_count by exactly 1 if
\* no module status is CRITICAL or FAILED once all modules were updated in
\* that call, and leaves it unchanged otherwise.
C1_FeedGating ==
    [][Tick =>
          hw_wdt_feed_count' = hw_wdt_feed_count +
              (IF \A m \in DOMAIN modules' : modules'[m].status \notin Failure
               THEN 1 ELSE 0)]_vars

\* Two ticks, the first fed and the second, with a CRITICAL module, not fed.
C1_Witness ==
    /\ last_call.op = "update"
    /\ n_updates = 2
    /\ hw_wdt_feed_count = 1
    /\ \E m \in DOMAIN modules : modules[m].status = HEALTH_CRITICAL

StrictlyOrdered ==
    /\ soft_recovery_threshold < module_restart_threshold
    /\ module_restart_threshold < system_recovery_threshold

\* The escalation table of the specification.
EscalationTable(n) ==
    CASE n < soft_recovery_threshold -> RECOVERY_SOFT
      [] soft_recovery_threshold <= n /\ n < module_restart_threshold ->
             RECOVERY_MODULE_RESTART
      [] module_restart_threshold <= n /\ n < system_recovery_threshold ->
             RECOVERY_SYSTEM_REBOOT
      [] n >= system_recovery_threshold -> RECOVERY_HW_WATCHDOG

\* C2 (escalation table): under thresholds soft < module_restart <
\* system_reboot, every tick on which a module reports CRITICAL or FAILED
\* records exactly one action for that module, with n its consecutive failure
\* count after the increment: SOFT if n < soft, MODULE_RESTART if
\* soft <= n < module_restart, SYSTEM_REBOOT if module_restart <= n <
\* system_reboot, HARDWARE_WATCHDOG_RESET if n >= system_reboot.
C2_EscalationTable ==
    [][(Tick /\ StrictlyOrdered) =>
          \A m \in DOMAIN modules' :
              modules'[m].status \in Failure =>
                  LET n == modules'[m].failure_count
                      mine == {i \in 1 .. Len(Appended) : Appended[i].module = m}
                  IN  /\ n = modules[m].failure_count + 1
                      /\ Cardinality(mine) = 1
                      /\ \A i \in mine :
                            /\ Appended[i].failure_count = n
                            /\ Appended[i].action = EscalationTable(n)]_vars

\* Thresholds (2, 3, 4) and four failing ticks: one action of each kind.
C2_Witness ==
    /\ thresholds = <<2, 3, 4>>
    /\ Len(recovery_actions_taken) = 4
    /\ recovery_actions_taken[1].action = RECOVERY_SOFT
    /\ recovery_actions_taken[2].action = RECOVERY_MODULE_RESTART
    /\ recovery_actions_taken[3].action = RECOVERY_SYSTEM_REBOOT
    /\ recovery_actions_taken[4].action = RECOVERY_HW_WATCHDOG

DefaultThresholds ==
    thresholds = <<DEFAULT_SOFT_RECOVERY_THRESHOLD,
                   DEFAULT_MODULE_RESTART_THRESHOLD,
                   DEFAULT_SYSTEM_RECOVERY_THRESHOLD>>

\* The sequence of actions claim C3 states, by position k in the streak.
ClaimedSequence(k) ==
    IF k <= 2 THEN RECOVERY_SOFT
    ELSE IF k <= 5 THEN RECOVERY_MODULE_RESTART
    ELSE IF k <= 10 THEN RECOVERY_SYSTEM_REBOOT
    ELSE RECOVERY_HW_WATCHDOG

\* The sequence of actions the amended claim C3 states.
AmendedSequence(k) ==
    IF k <= 1 THEN RECOVERY_SOFT
    ELSE IF k <= 4 THEN RECOVERY_MODULE_RESTART
    ELSE IF k <= 9 THEN RECOVERY_SYSTEM_REBOOT
    ELSE RECOVERY_HW_WATCHDOG

\* The actions recorded follow the sequence seq: the action of the k-th
\* consecutive failure of a streak is seq(k), and when the module has failed
\* on every tick so far the whole record is seq(1), seq(2), ...
FollowsSequence(amended) ==
    LET seq(k) == IF amended THEN AmendedSequence(k) ELSE ClaimedSequence(k)
    IN  \A m \in DOMAIN modules :
            /\ (last_call.op = "update" /\ modules[m].status \in Failure) =>
                   LastAction = seq(modules[m].failure_count)
            /\ (modules[m].failure_count = n_updates) =>
                   /\ Len(recovery_actions_taken) = n_updates
                   /\ \A i \in 1 .. n_updates :
                          recovery_actions_taken[i].action = seq(i)

\* C3 as stated (escalation sequence): with thresholds (2, 5, 10) a module
\* failing on every tick from a zero streak records SOFT, SOFT,
\* MODULE_RESTART x3, SYSTEM_REBOOT x5, then HARDWARE_WATCHDOG_RESET; the
\* action on the second consecutive failure is SOFT.
C3_Original == DefaultThresholds => FollowsSequence(FALSE)

\* C3 as amended (escalation sequence): with thresholds (2, 5, 10) a module
\* failing on every tick from a zero streak records SOFT, MODULE_RESTART x3,
\* SYSTEM_REBOOT x5, then HARDWARE_WATCHDOG_RESET on every later tick; the
\* action on the second consecutive failure is MODULE_RESTART.
C3_EscalationSequence == DefaultThresholds => FollowsSequence(TRUE)

\* Eleven ticks, all failed: the record reaches HARDWARE_WATCHDOG_RESET twice.
C3_Witness ==
    /\ DefaultThresholds
    /\ n_updates = 11
    /\ Len(recovery_actions_taken) = 11
    /\ \E m \in DOMAIN modules : modules[m].failure_count = 11

\* C4 (scenario D): with thresholds (2, 5, 10) and one module failing on
\* every tick from a fresh manager, the action of tick 10 is
\* HARDWARE_WATCHDOG_RESET, the actions of ticks 5 to 9 are SYSTEM_REBOOT,
\* and system_rebooted is false after ticks 1 to 4, true after ticks 5 to 9.
C4_ScenarioD ==
    \A m \in DOMAIN modules :
        (DefaultThresholds /\ modules[m].failure_count = n_updates) =>
            /\ n_updates \in 1 .. 4 => ~system_rebooted
            /\ n_updates \in 5 .. 9 =>
                   system_rebooted /\ LastAction = RECOVERY_SYSTEM_REBOOT
            /\ n_updates = 10 => LastAction = RECOVERY_HW_WATCHDOG

\* The tenth failing tick in a row of a fresh manager.
C4_Witness ==
    /\ n_updates = 10
    /\ \E m \in DOMAIN modules : modules[m].failure_count = 10
    /\ system_rebooted
    /\ LastAction = RECOVERY_HW_WATCHDOG

\* The maximum severity over the statuses of the registered modules.
MaxSeverity ==
    IF DOMAIN modules = {} THEN HEALTH_OK
    ELSE CHOOSE s \in {modules[m].status : m \in DOMAIN modules} :
             \A m \in DOMAIN modules : modules[m].status <= s

\* C5 (worst-of aggregation): in every reachable state get_system_health()
\* is the maximum severity over the statuses of all registered modules, and
\* OK when no module is registered.
C5_WorstOf == get_system_health(modules, order) = MaxSeverity

\* The worst module registered first, a milder one after it.
C5_Witness ==
    /\ Len(order) = 2
    /\ modules[order[1]].status = HEALTH_CRITICAL
    /\ modules[order[2]].status = HEALTH_WARNING
    /\ get_system_health(modules, order) = HEALTH_CRITICAL

\* The last call registered a module whose health check reports CRITICAL,
\* and every other registered module is OK.
RegisteredCritical(call, mods) ==
    /\ call.op = "register_module"
    /\ mods[call.arg].check_func = "check_critical"
    /\ \A m \in DOMAIN mods \ {call.arg} : mods[m].status = HEALTH_OK

\* C6 as stated: in the state reached by register_module of a module whose
\* health check reports CRITICAL, all other modules being OK,
\* get_system_health() is CRITICAL and the module's status is CRITICAL.
C6_Original ==
    RegisteredCritical(last_call, modules) =>
        /\ get_system_health(modules, order) = HEALTH_CRITICAL
        /\ modules[last_call.arg].status = HEALTH_CRITICAL

\* C6 as amended: register_module does not call the health check; in the
\* state it reaches, with all other modules OK, the new module's status and
\* get_system_health() are OK, and the next update() stores CRITICAL for the
\* module and, the others still OK, makes get_system_health() CRITICAL.
C6_RegisterThenTick ==
    [][/\ RegisteredCritical(last_call', modules') =>
              /\ modules'[last_call'.arg].status = HEALTH_OK
              /\ get_system_health(modules', order') = HEALTH_OK
       /\ (RegisteredCritical(last_call, modules) /\ Tick) =>
              /\ modules'[last_call.arg].status = HEALTH_CRITICAL
              /\ (\A m \in DOMAIN modules \ {last_call.arg} :
                      modules'[m].status = HEALTH_OK) =>
                     get_system_health(modules', order') = HEALTH_CRITICAL]_vars

\* A module with a CRITICAL health check registered beside a module that
\* has been polled and is OK.
C6_Witness ==
    /\ RegisteredCritical(last_call, modules)
    /\ Cardinality(DOMAIN modules) = 2
    /\ n_updates >= 1
    /\ \E m \in DOMAIN modules : modules[m].check_func = "check_any"

\* C7 (unknown module fails closed): get_module_health(id) returns FAILED for
\* an id that is not registered and the module's current status for a
\* registered id, and changes no state of the manager.
C7_UnknownFailsClosed ==
    [][last_call'.op = "get_module_health" =>
          /\ last_call'.ret =
                 IF \E i \in 1 .. Len(order) : order[i] = last_call'.arg
                 THEN modules[last_call'.arg].status
                 ELSE HEALTH_FAILED
          /\ UNCHANGED <<modules, order, hw_wdt_fed, hw_wdt_feed_count,
                         system_rebooted, recovery_actions_taken,
                         thresholds>>]_vars

\* A query for an id that is not registered, beside a polled module.
C7_Witness ==
    /\ last_call.op = "get_module_health"
    /\ last_call.arg \notin DOMAIN modules
    /\ last_call.ret = HEALTH_FAILED
    /\ DOMAIN modules # {}
    /\ n_updates >= 1

\* C8 (monotonic total count): on every tick each module's
\* total_failure_count grows by 1 if its status in that tick is CRITICAL or
\* FAILED and is unchanged otherwise.
C8_TotalCount ==
    [][Tick =>
          \A m \in DOMAIN modules :
              modules'[m].total_failures =
                  modules[m].total_failures +
                      (IF modules'[m].status \in Failure THEN 1 ELSE 0)]_vars

\* A module that failed on two ticks beside one that never failed.
C8_Witness ==
    /\ last_call.op = "update"
    /\ \E m \in DOMAIN modules :
           modules[m].total_failures = 2 /\ modules[m].status = HEALTH_CRITICAL
    /\ \E m \in DOMAIN modules :
           modules[m].total_failures = 0 /\ modules[m].status = HEALTH_WARNING

\* C9 (streak reset): a tick on which a module with a streak n >= 1 reports
\* OK sets its consecutive_failure_count to 0 and leaves its
\* total_failure_count; no step lowers consecutive_failure_count unless the
\* module's status becomes OK.
C9_StreakReset ==
    [][\A m \in DOMAIN modules :
           /\ (Tick /\ modules'[m].status = HEALTH_OK
                    /\ modules[m].failure_count >= 1) =>
                  /\ modules'[m].failure_count = 0
                  /\ modules'[m].total_failures = modules[m].total_failures
           /\ (modules'[m].failure_count < modules[m].failure_count) =>
                  modules'[m].status = HEALTH_OK]_vars

\* Two failures, then OK: the streak is back to 0 and the total is 2.
C9_Witness ==
    /\ last_call.op = "update"
    /\ \E m \in DOMAIN modules :
           /\ modules[m].status = HEALTH_OK
           /\ modules[m].failure_count = 0
           /\ modules[m].total_failures = 2

\* C10 (streak at most total): in every reachable state each module's
\* consecutive_failure_count is at least 0 and at most its
\* total_failure_count.
C10_StreakAtMostTotal ==
    \A m \in DOMAIN modules :
        /\ 0 <= modules[m].failure_count
        /\ modules[m].failure_count <= modules[m].total_failures

\* A failure, a recovery and a failure again: streak 1, total 2.
C10_Witness ==
    \E m \in DOMAIN modules :
        modules[m].failure_count = 1 /\ modules[m].total_failures = 2

\* C11 (WARNING is streak-neutral): a tick on which a module reports WARNING
\* leaves its consecutive_failure_count and total_failure_count as they were,
\* and a failure reported on the tick after a WARNING continues the streak:
\* the count goes up by one from its value before the WARNING and the action
\* recorded is the one for that count (CRITICAL, WARNING, CRITICAL ends with
\* count 2, escalated as streak 2).
C11_WarningStreakNeutral ==
    [][\A m \in DOMAIN modules :
           /\ (Tick /\ modules'[m].status = HEALTH_WARNING) =>
                  /\ modules'[m].failure_count = modules[m].failure_count
                  /\ modules'[m].total_failures = modules[m].total_failures
           /\ (Tick /\ modules[m].status = HEALTH_WARNING
                    /\ modules'[m].status \in Failure) =>
                  /\ modules'[m].failure_count = modules[m].failure_count + 1
                  /\ Len(Appended) = 1
                  /\ Appended[1] =
                         [module |-> m,
                          action |-> _determine_recovery_action(
                                         modules[m].failure_count + 1),
                          failure_count |-> modules[m].failure_count + 1]]_vars

\* CRITICAL then WARNING: the streak of 1 is still there after the WARNING.
C11_Witness ==
    /\ last_call.op = "update"
    /\ n_updates = 2
    /\ \E m \in DOMAIN modules :
           /\ modules[m].status = HEALTH_WARNING
           /\ modules[m].failure_count = 1
           /\ modules[m].total_failures = 1

\* C12 (recording iff failing): on every tick, recovery_actions_taken gets an
\* entry for a module exactly when that module's status of the tick is
\* CRITICAL or FAILED, one entry per such module; a tick on which every
\* module is OK or WARNING appends nothing and invokes no recovery callback.
C12_RecordedIffFailing ==
    [][Tick =>
          /\ \A m \in DOMAIN modules :
                 (\E i \in 1 .. Len(Appended) : Appended[i].module = m)
                     <=> modules'[m].status \in Failure
          /\ Len(Appended) =
                 Cardinality({m \in DOMAIN modules : modules'[m].status \in Failure})
          /\ (\A m \in DOMAIN modules : modules'[m].status \notin Failure) =>
                 Appended = << >> /\ recovery_calls' = << >>]_vars

\* A tick with one module CRITICAL and the other WARNING: the only entry is
\* the one of the failing module.
C12_Witness ==
    /\ last_call.op = "update"
    /\ Len(recovery_actions_taken) = 1
    /\ \E m, w \in DOMAIN modules :
           /\ modules[m].status = HEALTH_CRITICAL
           /\ recovery_actions_taken[1].module = m
           /\ modules[w].status = HEALTH_WARNING
           /\ modules[w].check_func # "None"

\* The positions of recovery_calls after a step that hold a call of the
\* recovery callback of module m.
CallsOf(m) ==
    {i \in 1 .. Len(recovery_calls') : recovery_calls'[i].module = m}

\* The action of the entry a step appends for module m.
ActionOf(m) ==
    Appended[CHOOSE i \in 1 .. Len(Appended) : Appended[i].module = m].action

\* A tick on which module m, registered with a recovery callback, fails.
FailsWithCallback(m) ==
    /\ Tick
    /\ modules'[m].recovery_func # "None"
    /\ modules'[m].status \in Failure

\* C13 as stated: on every tick on which a module with a recovery callback
\* reports CRITICAL or FAILED the callback is invoked exactly once with the
\* action of that tick, whichever of the four actions it is, and for
\* SYSTEM_REBOOT the reboot flag is set as well.
C13_Original ==
    [][\A m \in DOMAIN modules :
           FailsWithCallback(m) =>
               /\ Cardinality(CallsOf(m)) = 1
               /\ \A i \in CallsOf(m) : recovery_calls'[i].action = ActionOf(m)
               /\ ActionOf(m) = RECOVERY_SYSTEM_REBOOT => system_rebooted']_vars

\* C13 (callback invocation), amended: on such a tick the callback is
\* invoked exactly once with the action of the tick when that action is SOFT
\* or MODULE_RESTART, and is not invoked when it is SYSTEM_REBOOT or
\* HARDWARE_WATCHDOG_RESET; for SYSTEM_REBOOT the reboot flag is set.
C13_CallbackInvocation ==
    [][\A m \in DOMAIN modules :
           FailsWithCallback(m) =>
               /\ ActionOf(m) \in {RECOVERY_SOFT, RECOVERY_MODULE_RESTART} =>
                      /\ Cardinality(CallsOf(m)) = 1
                      /\ \A i \in CallsOf(m) :
                             recovery_calls'[i].action = ActionOf(m)
               /\ ActionOf(m) \in {RECOVERY_SYSTEM_REBOOT, RECOVERY_HW_WATCHDOG} =>
                      CallsOf(m) = {}
               /\ ActionOf(m) = RECOVERY_SYSTEM_REBOOT => system_rebooted']_vars

\* The fifth failure in a row of a module with a callback: SYSTEM_REBOOT is
\* recorded, the flag is set and the callback was not invoked.
C13_Witness ==
    /\ last_call.op = "update"
    /\ system_rebooted
    /\ recovery_calls = << >>
    /\ Len(recovery_actions_taken) = 5
    /\ LastAction = RECOVERY_SYSTEM_REBOOT
    /\ \E m \in DOMAIN modules :
           /\ modules[m].recovery_func # "None"
           /\ modules[m].status \in Failure
           /\ modules[m].failure_count = 5

\* C14 (reboot flag): system_rebooted is false in the initial state and in
\* every reachable state it is true exactly when some entry of
\* recovery_actions_taken has the action SYSTEM_REBOOT, whether or not the
\* module of that entry has a recovery callback.
C14_RebootFlag ==
    system_rebooted <=>
        \E i \in 1 .. Len(recovery_actions_taken) :
            recovery_actions_taken[i].action = RECOVERY_SYSTEM_REBOOT

\* A module registered without a recovery callback reached SYSTEM_REBOOT and
\* the flag is set.
C14_Witness ==
    /\ system_rebooted
    /\ LastAction = RECOVERY_SYSTEM_REBOOT
    /\ modules[recovery_actions_taken[Len(recovery_actions_taken)].module]
           .recovery_func = "None"

\* C15 (HARDWARE_WATCHDOG_RESET): on a tick on which the action computed for
\* a module is HARDWARE_WATCHDOG_RESET the manager does nothing else for that
\* module: its recovery callback is not invoked, system_rebooted changes only
\* if another entry of the tick is a SYSTEM_REBOOT, and the hardware watchdog
\* is not fed (flag and counter stay as they were).
C15_HwResetOnly ==
    [][\A m \in DOMAIN modules :
           (Tick /\ modules'[m].status \in Failure
                 /\ ActionOf(m) = RECOVERY_HW_WATCHDOG) =>
               /\ CallsOf(m) = {}
               /\ hw_wdt_feed_count' = hw_wdt_feed_count
               /\ hw_wdt_fed' = hw_wdt_fed
               /\ (system_rebooted' # system_rebooted) =>
                      \E i \in 1 .. Len(Appended) :
                          /\ Appended[i].module # m
                          /\ Appended[i].action = RECOVERY_SYSTEM_REBOOT]_vars

\* HARDWARE_WATCHDOG_RESET recorded for a module with a recovery callback
\* that never went through SYSTEM_REBOOT: the flag is still false, no
\* callback ran and nothing was ever fed.
C15_Witness ==
    /\ last_call.op = "update"
    /\ Len(recovery_actions_taken) > 0
    /\ LastAction = RECOVERY_HW_WATCHDOG
    /\ ~system_rebooted
    /\ recovery_calls = << >>
    /\ hw_wdt_feed_count = 0
    /\ \E m \in DOMAIN modules : modules[m].recovery_func # "None"

\* C16 (fed flag per tick): after every update() hw_wdt_fed is true exactly
\* when the watchdog was fed during that update, so after an update whose
\* system health is CRITICAL or FAILED the flag is false.
C16_FedFlagPerTick ==
    [][Tick =>
          /\ hw_wdt_fed' <=> (hw_wdt_feed_count' = hw_wdt_feed_count + 1)
          /\ ~is_healthy(modules', order') => ~hw_wdt_fed']_vars

\* A step that is a register_module call for module m.
Registers(m) ==
    /\ n_registers' = n_registers + 1
    /\ last_call'.op = "register_module"
    /\ last_call'.arg = m

\* C17 as stated: across any sequence of register_module and update calls,
\* re-registration of a registered module_id included, the
\* total_failure_count held for a module_id never decreases.
C17_Original ==
    [][\A m \in DOMAIN modules :
           modules'[m].total_failures >= modules[m].total_failures]_vars

\* C17 (lifetime counter), amended: no update() call lowers a module's
\* total_failure_count; the count goes down only when its module_id is
\* registered again, which replaces the record and puts both counts at 0.
C17_TotalNeverReset ==
    [][\A m \in DOMAIN modules :
           /\ Tick => modules'[m].total_failures >= modules[m].total_failures
           /\ (modules'[m].total_failures < modules[m].total_failures) =>
                  Registers(m)
           /\ Registers(m) =>
                  /\ modules'[m].total_failures = 0
                  /\ modules'[m].failure_count = 0]_vars

\* A module that failed and was registered again: its entry is in the action
\* log and its total_failure_count is 0.
C17_Witness ==
    /\ last_call.op = "register_module"
    /\ last_call.arg \in DOMAIN modules
    /\ modules[last_call.arg].total_failures = 0
    /\ \E i \in 1 .. Len(recovery_actions_taken) :
           recovery_actions_taken[i].module = last_call.arg

\* C18 (is_healthy): is_healthy() is true exactly when the system health is
\* OK or WARNING, that is when no module is CRITICAL or FAILED; after an
\* update() whose worst module status is WARNING the watchdog has been fed,
\* and with any module CRITICAL or FAILED is_healthy() is false.
C18_HealthyIffOkOrWarning ==
    /\ is_healthy(modules, order) <=> MaxSeverity \in {HEALTH_OK, HEALTH_WARNING}
    /\ is_healthy(modules, order) <=>
           \A m \in DOMAIN modules : modules[m].status \notin Failure
    /\ (last_call.op = "update" /\ MaxSeverity = HEALTH_WARNING) =>
           hw_wdt_fed /\ hw_wdt_feed_count >= 1

\* One tick with a module at WARNING and none worse: healthy and fed.
C18_Witness ==
    /\ last_call.op = "update"
    /\ n_updates = 1
    /\ \E m \in DOMAIN modules : modules[m].status = HEALTH_WARNING
    /\ \A m \in DOMAIN modules : modules[m].status \notin Failure
    /\ is_healthy(modules, order)
    /\ hw_wdt_fed
    /\ hw_wdt_feed_count = 1

\* The position of module m in the registration order.
PositionOf(m) == CHOOSE k \in 1 .. Len(order) : order[k] = m

\* C19 (tick ordering): within each update() the modules are handled in
\* registration order, each one completely before the next, and the feed
\* decision is taken once, after the last module, from the statuses of that
\* tick: the entries the tick appends to recovery_actions_taken, and the
\* recovery callbacks it invokes, are in registration order, every entry
\* carries the count its module has after the tick, and the watchdog is fed
\* once exactly when no module has ended the tick CRITICAL or FAILED.
C19_TickOrdering ==
    [][Tick =>
          /\ \A i, j \in 1 .. Len(Appended) :
                 i < j => PositionOf(Appended[i].module) <
                              PositionOf(Appended[j].module)
          /\ \A i, j \in 1 .. Len(recovery_calls') :
                 i < j => PositionOf(recovery_calls'[i].module) <
                              PositionOf(recovery_calls'[j].module)
          /\ \A i \in 1 .. Len(Appended) :
                 Appended[i].failure_count =
                     modules'[Appended[i].module].failure_count
          /\ hw_wdt_feed_count' = hw_wdt_feed_count +
                 (IF \A m \in DOMAIN modules : modules'[m].status \notin Failure
                  THEN 1 ELSE 0)]_vars

\* Module 1 registered before module 0 and both failing on the first tick:
\* the entry of module 1 comes first.
C19_Witness ==
    /\ last_call.op = "update"
    /\ order = <<1, 0>>
    /\ Len(recovery_actions_taken) = 2
    /\ recovery_actions_taken[1].module = 1
    /\ recovery_actions_taken[2].module = 0
    /\ hw_wdt_feed_count = 0

\* A module whose health check reports CRITICAL on every call is registered.
AlwaysFailingRegistered ==
    \E m \in DOMAIN modules : modules[m].check_func = "check_critical"

\* The last action recorded is HARDWARE_WATCHDOG_RESET.
HwResetRecorded ==
    /\ Len(recovery_actions_taken) > 0
    /\ LastAction = RECOVERY_HW_WATCHDOG

\* C20 (eventual backstop): with ticks that keep occurring, a module that
\* reports CRITICAL or FAILED on every tick has, after finitely many ticks,
\* HARDWARE_WATCHDOG_RESET as its computed action and keeps it on every later
\* tick, and the watchdog is not fed on any tick of that streak.
C20_EventualBackstop ==
    /\ [](AlwaysFailingRegistered => hw_wdt_feed_count = 0)
    /\ AlwaysFailingRegistered ~> [](HwResetRecorded /\ hw_wdt_feed_count = 0)

\* The always failing module after its eleventh failure in a row:
\* HARDWARE_WATCHDOG_RESET recorded again, nothing ever fed.
C20_Witness ==
    /\ AlwaysFailingRegistered
    /\ HwResetRecorded
    /\ hw_wdt_feed_count = 0
    /\ n_updates > DEFAULT_SYSTEM_RECOVERY_THRESHOLD
    /\ \E m \in DOMAIN modules :
           modules[m].failure_count = n_updates

\* The registry mods with every recovery callback removed.
WithoutCallbacks(mods) ==
    [m \in DOMAIN mods |-> [mods[m] EXCEPT !.recovery_func = "None"]]

\* What update() with the given results leaves in the manager when it starts
\* from the registry mods and the rest of the current state: statuses,
\* messages, counters, recorded actions, reboot flag, fed flag, feed count.
TickOutcome(mods, results) ==
    LET self == poll_modules([self_state EXCEPT !.modules = mods],
                             order, 1, results)
        fed == IF is_healthy(self.modules, order) THEN feed_hw_watchdog
               ELSE <<hw_wdt_fed, hw_wdt_feed_count>>
    IN  [modules |-> [m \in DOMAIN self.modules |->
                         [status |-> self.modules[m].status,
                          message |-> self.modules[m].message,
                          failure_count |-> self.modules[m].failure_count,
                          total_failures |-> self.modules[m].total_failures]],
         recovery_actions_taken |-> self.recovery_actions_taken,
         system_rebooted |-> self.system_rebooted,
         hw_wdt_fed |-> fed[1],
         hw_wdt_feed_count |-> fed[2]]

\* C21 (count-based policy): the state of the manager depends only on the
\* health check results: from every reachable state and for every result of
\* the next tick, the manager whose modules have recovery callbacks and the
\* manager that differs from it only in having none end the tick with the
\* same statuses, counters, recorded actions, reboot flag, fed flag and feed
\* count, so that two such managers given the same results stay equal.
C21_CountBasedPolicy ==
    \A results \in TickResults :
        TickOutcome(modules, results) =
            TickOutcome(WithoutCallbacks(modules), results)

\* A module with a recovery callback that went through SOFT, MODULE_RESTART
\* and SYSTEM_REBOOT.
C21_Witness ==
    /\ last_call.op = "update"
    /\ system_rebooted
    /\ \E m \in DOMAIN modules :
           /\ modules[m].recovery_func # "None"
           /\ modules[m].failure_count >= DEFAULT_MODULE_RESTART_THRESHOLD
    /\ WithoutCallbacks(modules) # modules

\* The action a is among the recorded actions.
Recorded(a) ==
    \E i \in 1 .. Len(recovery_actions_taken) :
        recovery_actions_taken[i].action = a

\* C22 (escalation milestones): for all thresholds with
\* 1 <= soft < module_restart < system_reboot, a single module that has
\* failed on every tick of a fresh manager has MODULE_RESTART among its
\* recorded actions once module_restart_threshold ticks have passed,
\* SYSTEM_REBOOT once module_restart_threshold + 1 ticks have passed and
\* HARDWARE_WATCHDOG_RESET once system_recovery_threshold ticks have passed.
C22_EscalationMilestones ==
    \A m \in DOMAIN modules :
        (StrictlyOrdered /\ soft_recovery_threshold >= 1
             /\ modules[m].failure_count = n_updates) =>
            /\ n_updates >= module_restart_threshold =>
                   Recorded(RECOVERY_MODULE_RESTART)
            /\ n_updates >= module_restart_threshold + 1 =>
                   Recorded(RECOVERY_SYSTEM_REBOOT)
            /\ n_updates >= system_recovery_threshold =>
                   Recorded(RECOVERY_HW_WATCHDOG)

\* Thresholds (1, 2, 3) and three failing ticks: the three milestones are in
\* the log, HARDWARE_WATCHDOG_RESET as the last entry.
C22_Witness ==
    /\ StrictlyOrdered
    /\ n_updates = system_recovery_threshold
    /\ system_recovery_threshold = module_restart_threshold + 1
    /\ \E m \in DOMAIN modules : modules[m].failure_count = n_updates
    /\ Recorded(RECOVERY_MODULE_RESTART)
    /\ Recorded(RECOVERY_SYSTEM_REBOOT)
    /\ LastAction = RECOVERY_HW_WATCHDOG

\* A step is a call of MockButton.update().
ButtonUpdated == button_history'.op = "update"

\* The events a step appends to the queue of the button.
NewEvents == pushed_by(button, button')

\* Time since the update that entered the current debouncing state, given
\* that last_state_change holds the time of that update.
SinceStateChange == button.current_time_ms - button.last_state_change

\* C23 (press debounce): DEBOUNCING_PRESS is entered by an update that
\* observes the input pressed in RELEASED, and that update starts the
\* debounce window at its own time (a fresh window for every press); the
\* window start is kept while the state lasts; a press is confirmed (state
\* PRESSED, is_pressed true, exactly one EVENT_PRESSED queued) only by an
\* update that observes the input pressed at least debounce_ms after the
\* window start, and is confirmed by the first such update, exactly
\* debounce_ms included; an update in DEBOUNCING_PRESS that observes the
\* input released returns to RELEASED with is_pressed false and nothing
\* queued.
C23_PressDebounce ==
    [][/\ (button.state # STATE_DEBOUNCING_PRESS
               /\ button'.state = STATE_DEBOUNCING_PRESS) =>
              /\ ButtonUpdated
              /\ button.state = STATE_RELEASED
              /\ button.raw_state
              /\ button'.last_state_change = button.current_time_ms
       /\ (button.state = STATE_DEBOUNCING_PRESS
               /\ button'.state = STATE_DEBOUNCING_PRESS) =>
              button'.last_state_change = button.last_state_change
       /\ ((~button.is_pressed /\ button'.is_pressed)
               \/ (\E i \in 1 .. Len(NewEvents) : NewEvents[i] = EVENT_PRESSED)) =>
              /\ ButtonUpdated
              /\ button.state = STATE_DEBOUNCING_PRESS
              /\ button.raw_state
              /\ SinceStateChange >= button.debounce_ms
              /\ button'.state = STATE_PRESSED
              /\ button'.is_pressed
              /\ NewEvents = <<EVENT_PRESSED>>
       /\ (ButtonUpdated /\ button.initialized
               /\ button.state = STATE_DEBOUNCING_PRESS /\ button.raw_state
               /\ SinceStateChange >= button.debounce_ms) =>
              button'.state = STATE_PRESSED
       /\ (ButtonUpdated /\ button.state = STATE_DEBOUNCING_PRESS
               /\ ~button.raw_state) =>
              /\ button'.state = STATE_RELEASED
              /\ ~button'.is_pressed
              /\ NewEvents = << >>]_vars

\* A press that started after time 0 and was confirmed by the update exactly
\* debounce_ms after the update that saw it first.
C23_Witness ==
    /\ button_history.op = "update"
    /\ button.state = STATE_PRESSED
    /\ button.is_pressed
    /\ button.last_state_change > 0
    /\ button.press_time = button.last_state_change + button.debounce_ms
    /\ button.current_time_ms = button.press_time
    /\ button_history.pushed = <<EVENT_PRESSED>>

\* C24 (release debounce): DEBOUNCING_RELEASE is entered by an update that
\* observes the input released in PRESSED or LONG_PRESS, which starts the
\* window at its own time, kept while the state lasts; an update in
\* DEBOUNCING_RELEASE that observes the input pressed returns to PRESSED, or
\* to LONG_PRESS if the long press was already triggered, with is_pressed
\* still true and nothing queued; a release is confirmed (state RELEASED,
\* is_pressed false, EVENT_RELEASED queued) only by an update that observes
\* the input released at least debounce_ms after the window start.
C24_ReleaseDebounce ==
    [][/\ (button.state # STATE_DEBOUNCING_RELEASE
               /\ button'.state = STATE_DEBOUNCING_RELEASE) =>
              /\ ButtonUpdated
              /\ button.state \in {STATE_PRESSED, STATE_LONG_PRESS}
              /\ ~button.raw_state
              /\ button'.last_state_change = button.current_time_ms
       /\ (button.state = STATE_DEBOUNCING_RELEASE
               /\ button'.state = STATE_DEBOUNCING_RELEASE) =>
              button'.last_state_change = button.last_state_change
       /\ (ButtonUpdated /\ button.state = STATE_DEBOUNCING_RELEASE
               /\ button.raw_state) =>
              /\ button'.state = IF button.long_press_triggered
                                 THEN STATE_LONG_PRESS ELSE STATE_PRESSED
              /\ button.is_pressed /\ button'.is_pressed
              /\ NewEvents = << >>
       /\ ((button.is_pressed /\ ~button'.is_pressed)
               \/ (\E i \in 1 .. Len(NewEvents) :
                       NewEvents[i] \in {EVENT_RELEASED, EVENT_CLICK})) =>
              /\ ButtonUpdated
              /\ button.state = STATE_DEBOUNCING_RELEASE
              /\ ~button.raw_state
              /\ SinceStateChange >= button.debounce_ms
              /\ button'.state = STATE_RELEASED
              /\ ~button'.is_pressed
              /\ NewEvents[1] = EVENT_RELEASED]_vars

\* A long press whose release bounced: the update that saw the input pressed
\* again went back to LONG_PRESS and queued nothing.
C24_Witness ==
    /\ button_history.op = "update"
    /\ button.state = STATE_LONG_PRESS
    /\ button.raw_state
    /\ button.is_pressed
    /\ button.last_state_change > button.press_time
    /\ button_history.pushed = <<EVENT_PRESSED, EVENT_LONG_PRESS>>

\* The sequence of all events ever queued.
Pushed == button_history.pushed

\* The position of the last EVENT_PRESSED before position r of Pushed.
PressBefore(r) ==
    CHOOSE p \in 0 .. r :
        /\ p > 0 => Pushed[p] = EVENT_PRESSED
        /\ \A k \in (p + 1) .. r : Pushed[k] # EVENT_PRESSED

\* In every state: click_count is the number of EVENT_CLICK queued since the
\* last reset_click_count, no press has two EVENT_LONG_PRESS, and a release
\* is followed by EVENT_CLICK exactly when its press has no EVENT_LONG_PRESS.
ClickAccounting ==
    /\ button.click_count =
           Cardinality({i \in (button_history.reset_at + 1) .. Len(Pushed) :
                            Pushed[i] = EVENT_CLICK})
    /\ \A i, j \in 1 .. Len(Pushed) :
           (i < j /\ Pushed[i] = EVENT_LONG_PRESS
                  /\ Pushed[j] = EVENT_LONG_PRESS) =>
               \E k \in (i + 1) .. (j - 1) : Pushed[k] = EVENT_PRESSED
    /\ \A r \in 1 .. Len(Pushed) :
           Pushed[r] = EVENT_RELEASED =>
               ((r < Len(Pushed) /\ Pushed[r + 1] = EVENT_CLICK) <=>
                    ~\E k \in PressBefore(r) .. r :
                         k > 0 /\ Pushed[k] = EVENT_LONG_PRESS)

\* On every step: press_time is set by the update that confirms the press
\* and by nothing else, EVENT_LONG_PRESS is queued only by an update that
\* observes the input pressed at least long_press_ms after press_time, and
\* click_count goes up by 1 exactly when EVENT_CLICK is queued.
LongPressAndClickSteps ==
    /\ (button'.press_time # button.press_time
            \/ \E i \in 1 .. Len(NewEvents) : NewEvents[i] = EVENT_PRESSED) =>
           /\ NewEvents = <<EVENT_PRESSED>>
           /\ button'.press_time = button.current_time_ms
    /\ (\E i \in 1 .. Len(NewEvents) : NewEvents[i] = EVENT_LONG_PRESS) =>
           /\ ButtonUpdated
           /\ button.raw_state
           /\ button.is_pressed
           /\ button.current_time_ms - button.press_time >= button.long_press_ms
           /\ NewEvents = <<EVENT_LONG_PRESS>>
    /\ (\E i \in 1 .. Len(NewEvents) : NewEvents[i] = EVENT_CLICK) =>
           button'.click_count = button.click_count + 1
    /\ button'.click_count > button.click_count =>
           /\ button'.click_count = button.click_count + 1
           /\ NewEvents = <<EVENT_RELEASED, EVENT_CLICK>>

\* C25 (click versus long press): for each confirmed press EVENT_LONG_PRESS
\* is queued at most once and only by an update observing the input still
\* pressed at least long_press_ms after the press was confirmed; on the
\* confirmed release EVENT_CLICK is queued and click_count incremented by 1
\* if and only if no EVENT_LONG_PRESS was queued for that press; click_count
\* always equals the number of EVENT_CLICK queued since the last reset.
C25_ClickVersusLongPress ==
    []ClickAccounting /\ [][LongPressAndClickSteps]_vars

\* A long press released without a click, then a short press released with
\* one.
C25_Witness ==
    /\ Pushed = <<EVENT_PRESSED, EVENT_LONG_PRESS, EVENT_RELEASED,
                  EVENT_PRESSED, EVENT_RELEASED, EVENT_CLICK>>
    /\ button.click_count = 1
    /\ button.state = STATE_RELEASED

\* The number of EVENT_PRESSED and EVENT_RELEASED before position i of Pushed.
EdgesBefore(i) ==
    Cardinality({k \in 1 .. (i - 1) :
                     Pushed[k] \in {EVENT_PRESSED, EVENT_RELEASED}})

\* In every state: EVENT_PRESSED and EVENT_RELEASED alternate in Pushed,
\* starting with EVENT_PRESSED; every EVENT_CLICK comes right after an
\* EVENT_RELEASED; every EVENT_LONG_PRESS comes after an EVENT_PRESSED with no
\* EVENT_RELEASED in between; the queue holds the events not yet delivered,
\* in the order they were queued.
EventOrdering ==
    /\ \A i \in 1 .. Len(Pushed) :
           /\ Pushed[i] = EVENT_PRESSED => EdgesBefore(i) % 2 = 0
           /\ Pushed[i] = EVENT_RELEASED => EdgesBefore(i) % 2 = 1
           /\ Pushed[i] = EVENT_CLICK =>
                  i > 1 /\ Pushed[i - 1] = EVENT_RELEASED
           /\ Pushed[i] = EVENT_LONG_PRESS => EdgesBefore(i) % 2 = 1
    /\ Len(button.event_queue) <= Len(Pushed)
    /\ button.event_queue =
           SubSeq(Pushed, Len(Pushed) - Len(button.event_queue) + 1, Len(Pushed))

\* On every get_next_event step: the result is the head of the queue, which
\* is removed, or EVENT_NONE when the queue is empty.
DeliversHead ==
    button_history'.op = "get_next_event" =>
        IF button.event_queue = << >>
        THEN /\ button_history'.ret = EVENT_NONE
             /\ button'.event_queue = << >>
        ELSE /\ button_history'.ret = Head(button.event_queue)
             /\ button'.event_queue = Tail(button.event_queue)

\* C26 (event ordering): in the sequence of all events ever queued
\* EVENT_PRESSED and EVENT_RELEASED strictly alternate starting with PRESSED,
\* every EVENT_CLICK immediately follows an EVENT_RELEASED and every
\* EVENT_LONG_PRESS lies between a PRESSED and the next RELEASED;
\* get_next_event delivers the queued events in FIFO order and returns
\* EVENT_NONE when the queue is empty.
C26_EventOrdering ==
    []EventOrdering /\ [][DeliversHead]_vars

\* A click of which PRESSED and RELEASED were delivered, CLICK still queued.
C26_Witness ==
    /\ Pushed = <<EVENT_PRESSED, EVENT_RELEASED, EVENT_CLICK>>
    /\ button_history.op = "get_next_event"
    /\ button_history.ret = EVENT_RELEASED
    /\ button.event_queue = <<EVENT_CLICK>>

\* The cycle OFF, CONTINUOUS_ON, MOTION_DETECT as the claim lists it.
CycleOrder == <<0, 1, 2>>
NextInCycle(mode) == (mode + 1) % 3

\* After k calls that were all cycle_mode, the mode is the (k mod 3)-th of
\* the cycle and mode_changes is k, for both state machines.
CycledFromInit ==
    /\ sm_history.n_calls = sm_history.n_cycles =>
           /\ sm.mode = CycleOrder[(sm_history.n_cycles % 3) + 1]
           /\ sm.mode_changes = sm_history.n_cycles
    /\ logic_history.n_calls = logic_history.n_cycles =>
           /\ logic_sm.mode = CycleOrder[(logic_history.n_cycles % 3) + 1]
           /\ logic_sm.mode_changes = logic_history.n_cycles

\* Every cycle_mode call goes to the next mode of the cycle and adds exactly
\* 1 to mode_changes, for both state machines.
CycleStep ==
    /\ sm_history'.n_cycles = sm_history.n_cycles + 1 =>
           /\ sm'.mode = NextInCycle(sm.mode)
           /\ sm'.mode_changes = sm.mode_changes + 1
    /\ logic_history'.n_cycles = logic_history.n_cycles + 1 =>
           /\ logic_sm'.mode = NextInCycle(logic_sm.mode)
           /\ logic_sm'.mode_changes = logic_sm.mode_changes + 1

\* C27 (mode cycling): cycle_mode maps OFF to CONTINUOUS_ON, CONTINUOUS_ON
\* to MOTION_DETECT and MOTION_DETECT to OFF and increments mode_changes by
\* exactly 1, so after k cycle_mode calls from the initial state the mode is
\* the (k mod 3)-th of that sequence and mode_changes = k, for
\* MockStateMachine and for the StateMachine of test_logic.
C27_ModeCycling ==
    []CycledFromInit /\ [][CycleStep]_vars

\* Four cycle_mode calls on the MockStateMachine, one on the other: the
\* first is back at CONTINUOUS_ON with mode_changes = 4.
C27_Witness ==
    /\ sm_history.n_cycles = 4
    /\ sm_history.n_calls = 4
    /\ sm.mode = MODE_CONTINUOUS_ON
    /\ sm.mode_changes = 4
    /\ logic_history.n_cycles = 1
    /\ logic_sm.mode = CONTINUOUS_ON

\* A step is a set_mode call on the MockStateMachine, on the StateMachine.
SmSetMode ==
    /\ sm_history'.n_calls = sm_history.n_calls + 1
    /\ sm_history'.op = "set_mode"
LogicSmSetMode ==
    /\ logic_history'.n_calls = logic_history.n_calls + 1
    /\ logic_history'.op = "set_mode"

\* C28 (set_mode to the current mode): from every reachable state set_mode(m)
\* with m the current mode leaves the mode, mode_changes, the LED flags and
\* an active warning as they are (no field changes), and set_mode to another
\* mode makes it the mode and adds exactly 1 to mode_changes, for
\* MockStateMachine and for the StateMachine of test_logic.
C28_SetModeSameMode ==
    [][/\ SmSetMode =>
              IF sm_history'.arg = sm.mode
              THEN sm' = sm
              ELSE /\ sm'.mode = sm_history'.arg
                   /\ sm'.mode_changes = sm.mode_changes + 1
       /\ LogicSmSetMode =>
              IF logic_history'.arg = logic_sm.mode
              THEN logic_sm' = logic_sm
              ELSE /\ logic_sm'.mode = logic_history'.arg
                   /\ logic_sm'.mode_changes = logic_sm.mode_changes + 1]_vars

\* set_mode(MOTION_DETECT), trigger_warning, set_mode(MOTION_DETECT): the
\* warning is still active and mode_changes is still 1.
C28_Witness ==
    /\ sm_history.op = "set_mode"
    /\ sm_history.arg = MODE_MOTION_DETECT
    /\ sm_history.n_calls = 3
    /\ sm.mode = MODE_MOTION_DETECT
    /\ sm.mode_changes = 1
    /\ sm.warning_active
    /\ sm.led_on
    /\ sm.led_blinking

\* A step is a trigger_warning call on the MockStateMachine.
SmTriggerWarning ==
    /\ sm_history'.n_calls = sm_history.n_calls + 1
    /\ sm_history'.op = "trigger_warning"

\* C29 (warnings only in MOTION_DETECT): trigger_warning in OFF or
\* CONTINUOUS_ON changes nothing (motion_events, warning_active and the LED
\* flags stay as they are), any change of mode while a warning is active
\* stops the warning, and in every reachable state warning_active implies
\* mode = MOTION_DETECT.
C29_WarningOnlyInMotionDetect ==
    /\ [](sm.warning_active => sm.mode = MODE_MOTION_DETECT)
    /\ [][/\ (SmTriggerWarning
                  /\ sm.mode \in {MODE_OFF, MODE_CONTINUOUS_ON}) => sm' = sm
          /\ (sm.warning_active /\ sm'.mode # sm.mode) =>
                 ~sm'.warning_active]_vars

\* A warning triggered in MOTION_DETECT and stopped by cycling to OFF before
\* any time has passed.
C29_Witness ==
    /\ sm_history.op = "cycle_mode"
    /\ sm_history.n_calls = 3
    /\ sm.mode = MODE_OFF
    /\ sm.motion_events = 1
    /\ sm.current_time_ms = 0
    /\ ~sm.warning_active
    /\ ~sm.led_on

\* A step is an update call on the MockStateMachine.
SmUpdate ==
    /\ sm_history'.n_calls = sm_history.n_calls + 1
    /\ sm_history'.op = "update"

\* Time since the warning was triggered, given that warning_start_time holds
\* the time of the last accepted trigger_warning.
SinceTrigger == sm.current_time_ms - sm.warning_start_time

\* C30 (warning expiry): each accepted trigger_warning adds 1 to
\* motion_events and starts the window at the time of the call, which only
\* another accepted trigger changes; an update earlier than
\* warning_duration (15000 ms) after the trigger leaves the warning active
\* and everything else as it is, and the first update at or after that time
\* clears warning_active, led_on and led_blinking; nothing but such an
\* update or a change of mode ends a warning.
C30_WarningExpiry ==
    [][/\ (SmTriggerWarning /\ sm.mode = MODE_MOTION_DETECT) =>
              /\ sm'.motion_events = sm.motion_events + 1
              /\ sm'.warning_active
              /\ sm'.warning_start_time = sm.current_time_ms
       /\ (sm'.warning_start_time # sm.warning_start_time
               \/ sm'.motion_events # sm.motion_events) =>
              SmTriggerWarning /\ sm.mode = MODE_MOTION_DETECT
       /\ (SmUpdate /\ sm.warning_active) =>
              IF SinceTrigger < WARNING_DURATION
              THEN sm' = sm
              ELSE /\ ~sm'.warning_active
                   /\ ~sm'.led_on
                   /\ ~sm'.led_blinking
       /\ (sm.warning_active /\ ~sm'.warning_active) =>
              \/ SmUpdate /\ SinceTrigger >= WARNING_DURATION
              \/ sm'.mode # sm.mode]_vars

\* A warning triggered at 1 ms and cleared by the update at 15001 ms.
C30_Witness ==
    /\ sm_history.op = "update"
    /\ sm.mode = MODE_MOTION_DETECT
    /\ sm.motion_events = 1
    /\ sm.warning_start_time = 1
    /\ sm.current_time_ms = sm.warning_start_time + WARNING_DURATION
    /\ ~sm.warning_active
    /\ ~sm.led_on
    /\ ~sm.led_blinking

\* C31 (LED consistency of MockStateMachine): after every completed
\* operation led_on and led_blinking are both true if the mode is
\* CONTINUOUS_ON or a warning is active, and both false otherwise; the LED is
\* off and not blinking right after the switch from CONTINUOUS_ON to
\* MOTION_DETECT, until motion is triggered.
C31_LedConsistency ==
    /\ sm.led_on <=> (sm.mode = MODE_CONTINUOUS_ON \/ sm.warning_active)
    /\ sm.led_blinking <=> (sm.mode = MODE_CONTINUOUS_ON \/ sm.warning_active)

\* OFF to CONTINUOUS_ON to MOTION_DETECT with no motion yet: LED off.
C31_Witness ==
    /\ sm_history.op = "cycle_mode"
    /\ sm_history.n_calls = 2
    /\ sm.mode = MODE_MOTION_DETECT
    /\ sm.mode_changes = 2
    /\ sm.motion_events = 0
    /\ ~sm.led_on
    /\ ~sm.led_blinking

\* A step is a call op on the LED.
LedCalled(op) ==
    /\ led_history'.n_calls = led_history.n_calls + 1
    /\ led_history'.op = op

\* The time since the current pattern was started.
LedElapsed == led.current_time_ms - led.pattern_start_time

\* The LED as stop_pattern leaves it.
LedStopped(self) ==
    /\ self.current_pattern = PATTERN_OFF
    /\ ~self.is_on
    /\ self.brightness = 0

\* The duration limit of a pattern, with the calls in stoppers as the only
\* ones that end a started pattern of duration 0.  start_pattern(p, d) at time t
\* records p, t and d, which stay until the next start_pattern, the next
\* stop_pattern or the expiry; an update() of a begun LED with a pattern of
\* duration d > 0 keeps the pattern before t + d and stops it from t + d
\* on; an update() with duration 0 keeps the pattern.
DurationRule(stoppers) ==
    /\ LedCalled("start_pattern") =>
           /\ led'.current_pattern = led_history'.args[1]
           /\ led'.pattern_start_time = led.current_time_ms
           /\ led'.pattern_duration = led_history'.args[2]
    /\ led_history'.op \notin {"start_pattern", "stop_pattern", "update"} =>
           /\ led'.pattern_start_time = led.pattern_start_time
           /\ led'.pattern_duration = led.pattern_duration
    /\ (LedCalled("update") /\ led.initialized /\ is_pattern_active(led)
            /\ led.pattern_duration > 0) =>
           IF LedElapsed >= led.pattern_duration
           THEN LedStopped(led')
           ELSE /\ led'.current_pattern = led.current_pattern
                /\ led'.pattern_start_time = led.pattern_start_time
                /\ led'.pattern_duration = led.pattern_duration
    /\ (LedCalled("update") /\ led.pattern_duration = 0) =>
           /\ led'.current_pattern = led.current_pattern
           /\ led'.pattern_duration = 0
    /\ (led_history.started /\ led.pattern_duration = 0
            /\ ~is_pattern_active(led')) =>
           led_history'.op \in stoppers

C33_BlinkStartsOff ==
    (led_history.op = "start_pattern" /\ led.current_pattern \in BlinkPatterns) =>
        ~led.is_on

\* C34 (ring buffer of MockLogger): after any sequence of accepted log
\* calls since the last clear, get_entry_count() is the smaller of the
\* number of accepted entries and BUFFER_SIZE, get_entry(i) for
\* 0 <= i < count is the i-th oldest of the count most recent accepted
\* entries, in logging order, and get_entry(i) for i >= count is None.
C34_RingBuffer ==
    LET accepted == logger_history.accepted
        count == get_entry_count(logger)
    IN  /\ count = IF Len(accepted) < BUFFER_SIZE THEN Len(accepted)
                   ELSE BUFFER_SIZE
        /\ \A i \in 0 .. count - 1 :
               get_entry(logger, i) = accepted[Len(accepted) - count + i + 1]
        /\ \A i \in count .. 2 * BUFFER_SIZE :
               get_entry(logger, i) = NoLogEntry

\* More entries than the buffer holds were accepted: the oldest are gone
\* and entry 0 is the oldest of the last BUFFER_SIZE.
C34_Witness ==
    /\ Len(logger_history.accepted) > BUFFER_SIZE
    /\ logger.total_entries = Len(logger_history.accepted)
    /\ get_entry_count(logger) = BUFFER_SIZE
    /\ logger.buffer_tail > 0
    /\ get_entry(logger, 0) =
           logger_history.accepted[Len(logger_history.accepted) - BUFFER_SIZE + 1]
    /\ get_entry(logger, 0) # logger_history.accepted[1]

\* Processing the result (status, message) of module m alone, from the
\* current state: the records of all other modules stay as they are.
OthersUntouched ==
    \A m \in DOMAIN modules :
        \A r \in check_func_returns(modules[m].check_func) :
            LET after == _update_module_health(self_state, m, r.status,
                                               r.message)
            IN  /\ DOMAIN after.modules = DOMAIN modules
                /\ \A other \in DOMAIN modules \ {m} :
                       after.modules[other] = modules[other]

\* Over a tick every module's counters follow from its own counters and its
\* own new status, and every failing module gets one recorded action with
\* its own streak and the action of that streak.
OwnStreakOnly ==
    \A m \in DOMAIN modules' :
        LET before == modules[m]
            after == modules'[m]
            mine == {i \in 1 .. Len(Appended) : Appended[i].module = m}
        IN  IF before.check_func = "None" THEN after = before /\ mine = {}
            ELSE IF after.status \in Failure
            THEN /\ after.failure_count = before.failure_count + 1
                 /\ after.total_failures = before.total_failures + 1
                 /\ Cardinality(mine) = 1
                 /\ \A i \in mine :
                        /\ Appended[i].failure_count = after.failure_count
                        /\ Appended[i].action =
                               _determine_recovery_action(after.failure_count)
            ELSE /\ after.failure_count =
                        IF after.status = HEALTH_OK THEN 0
                        ELSE before.failure_count
                 /\ after.total_failures = before.total_failures
                 /\ mine = {}

\* C35 (per-module independence): processing one module's health result
\* changes only that module's status, message and counters, besides the
\* shared action log and flags; the status, consecutive failure count and
\* total failure count of every other module are unchanged, and two modules
\* failing in the same tick each get their own recorded action, computed
\* from their own streak.
C35_PerModuleIndependence ==
    []OthersUntouched /\ [][Tick => OwnStreakOnly]_vars

\* Two modules fail in one tick with streaks 2 and 1, and each has its own
\* entry in the log.
C35_Witness ==
    /\ last_call.op = "update"
    /\ Len(recovery_actions_taken) = 3
    /\ \E m1, m2 \in DOMAIN modules :
           /\ m1 # m2
           /\ modules[m1].failure_count = 2
           /\ modules[m2].failure_count = 1
           /\ recovery_actions_taken[2].module # recovery_actions_taken[3].module
           /\ \E i, j \in {2, 3} :
                  /\ recovery_actions_taken[i] =
                         [module |-> m1, action |-> _determine_recovery_action(2),
                          failure_count |-> 2]
                  /\ recovery_actions_taken[j] =
                         [module |-> m2, action |-> _determine_recovery_action(1),
                          failure_count |-> 1]

\* C36 (feeding depends only on current statuses): on every tick after
\* which all module statuses are OK or WARNING the watchdog is fed, whether
\* or not system_rebooted is already true, HARDWARE_WATCHDOG_RESET was
\* recorded earlier or a module still carries a non-zero consecutive
\* failure count; feeding resumes on the first healthy tick after an
\* escalation.
C36_FeedOnHealthyTick ==
    [][(Tick /\ \A m \in DOMAIN modules' :
                    modules'[m].status \in {HEALTH_OK, HEALTH_WARNING}) =>
          /\ hw_wdt_fed'
          /\ hw_wdt_feed_count' = hw_wdt_feed_count + 1]_vars

\* Ten failing ticks up to HARDWARE_WATCHDOG_RESET, then a WARNING tick:
\* the reboot flag is set, the streak is still 10, and the tick has fed.
C36_Witness ==
    /\ last_call.op = "update"
    /\ n_updates = DEFAULT_SYSTEM_RECOVERY_THRESHOLD + 1
    /\ system_rebooted
    /\ HwResetRecorded
    /\ Len(recovery_actions_taken) = DEFAULT_SYSTEM_RECOVERY_THRESHOLD
    /\ \A m \in DOMAIN modules :
           /\ modules[m].status = HEALTH_WARNING
           /\ modules[m].failure_count = DEFAULT_SYSTEM_RECOVERY_THRESHOLD
    /\ hw_wdt_fed
    /\ hw_wdt_feed_count = 1

\* The feed counter counts fed ticks, and the flag says one has happened.
FeedCounted ==
    /\ hw_wdt_feed_count <= n_updates
    /\ hw_wdt_fed <=> hw_wdt_feed_count >= 1

\* No call lowers the feed counter or takes back a flag.
FlagsLatch ==
    /\ hw_wdt_feed_count' >= hw_wdt_feed_count
    /\ hw_wdt_fed => hw_wdt_fed'
    /\ system_rebooted => system_rebooted'

\* C37 (latching feed state): hw_wdt_feed_count never decreases and never
\* exceeds the number of update() calls made; in every reachable state
\* hw_wdt_fed is true exactly when hw_wdt_feed_count >= 1; no update() or
\* register_module() call sets hw_wdt_fed or system_rebooted back to false.
C37_LatchingFeedState == []FeedCounted /\ [][FlagsLatch]_vars

\* The module is registered again after a fed tick and five failing, unfed
\* ticks: both flags are still set.
C37_Witness ==
    /\ last_call.op = "register_module"
    /\ n_registers = 2
    /\ n_updates = DEFAULT_MODULE_RESTART_THRESHOLD + 1
    /\ hw_wdt_feed_count = 1
    /\ hw_wdt_fed
    /\ system_rebooted

\* The sum of total_failures over the modules in ids.
RECURSIVE SumOfTotals(_)
SumOfTotals(ids) ==
    IF ids = {} THEN 0
    ELSE LET m == CHOOSE id \in ids : TRUE
         IN  modules[m].total_failures + SumOfTotals(ids \ {m})

\* Every register_module call so far has added a new module_id.
NeverReregistered == n_registers = Len(order)

\* The log accounts for every counted failure, and each entry carries a
\* streak of at least 1 with the action the table gives for it.
LogAccounts ==
    /\ NeverReregistered =>
           Len(recovery_actions_taken) = SumOfTotals(DOMAIN modules)
    /\ \A i \in 1 .. Len(recovery_actions_taken) :
           LET entry == recovery_actions_taken[i]
           IN  /\ entry.failure_count >= 1
               /\ entry.action # RECOVERY_NONE
               /\ StrictlyOrdered =>
                      entry.action = EscalationTable(entry.failure_count)

\* A step keeps the entries the log already has.
LogAppendOnly ==
    /\ Len(recovery_actions_taken') >= Len(recovery_actions_taken)
    /\ SubSeq(recovery_actions_taken', 1, Len(recovery_actions_taken))
           = recovery_actions_taken

\* C38 (action log consistency): recovery_actions_taken is append-only; as
\* long as no module_id is registered again its length is the sum of
\* total_failure_count over all modules; every entry has failure_count >= 1
\* and the action that the escalation table gives for that failure_count
\* under the thresholds in force; RECOVERY_NONE is never recorded.
C38_ActionLogConsistency == []LogAccounts /\ [][LogAppendOnly]_vars

\* Two modules registered once each, three failures counted between them
\* and three entries in the log.
C38_Witness ==
    /\ NeverReregistered
    /\ Cardinality(DOMAIN modules) = 2
    /\ \A m \in DOMAIN modules : modules[m].total_failures >= 1
    /\ SumOfTotals(DOMAIN modules) = 3
    /\ Len(recovery_actions_taken) = 3
    /\ \E i \in 1 .. 3 : recovery_actions_taken[i].action = RECOVERY_MODULE_RESTART

\* The positions of the entries recorded for module m so far.
EntriesOf(m) ==
    {i \in 1 .. Len(recovery_actions_taken) : recovery_actions_taken[i].module = m}

\* Module m has an entry, and its last one.
HasEntry(m) == EntriesOf(m) # {}
LastEntryOf(m) ==
    recovery_actions_taken[CHOOSE i \in EntriesOf(m) :
                               \A j \in EntriesOf(m) : j <= i]

\* Escalation within a streak under strictly ordered thresholds.  On a tick
\* on which module m fails, the recorded action is at least as severe as
\* the last one recorded for m if the streak was running, and a less severe
\* one is recorded only with the streak at 0 before the tick, as the action
\* of streak 1; a WARNING tick keeps the streak; the streak returns to 0
\* only on an OK tick or, if reregistration is TRUE, when m is registered
\* again.
EscalatesWithinStreak(reregistration) ==
    StrictlyOrdered =>
        \A m \in DOMAIN modules :
            /\ (Tick /\ modules'[m].status \in Failure
                    /\ modules[m].check_func # "None" /\ HasEntry(m)) =>
                   LET new == CHOOSE e \in {Appended[i] : i \in 1 .. Len(Appended)} :
                                  e.module = m
                   IN  /\ modules[m].failure_count > 0 =>
                              new.action >= LastEntryOf(m).action
                       /\ new.action < LastEntryOf(m).action =>
                              /\ modules[m].failure_count = 0
                              /\ new.failure_count = 1
                              /\ new.action = EscalationTable(1)
            /\ (Tick /\ modules'[m].status = HEALTH_WARNING) =>
                   modules'[m].failure_count = modules[m].failure_count
            /\ (modules[m].failure_count > 0 /\ modules'[m].failure_count = 0) =>
                   \/ Tick /\ modules'[m].status = HEALTH_OK
                   \/ reregistration /\ Registers(m)

\* C39 as stated: the severity recorded for a module drops only after an
\* OK tick has reset its streak.
C39_Original == [][EscalatesWithinStreak(FALSE)]_vars

\* C39 (monotone escalation within a streak), amended: with fixed, strictly
\* ordered thresholds the successive actions recorded for one module
\* between two OK ticks, WARNING ticks allowed in between, never decrease
\* in severity as long as the module is not registered again; the severity
\* recorded for a module drops only after an OK tick or a registration of
\* its module_id has reset its streak, after which escalation restarts at
\* streak 1.
C39_MonotoneEscalation == [][EscalatesWithinStreak(TRUE)]_vars

\* SOFT, MODULE_RESTART and MODULE_RESTART in one streak with a WARNING
\* tick in it, then an OK tick and SOFT again at streak 1.
C39_Witness ==
    /\ last_call.op = "update"
    /\ n_registers = 1
    /\ n_updates = 6
    /\ Len(recovery_actions_taken) = 4
    /\ recovery_actions_taken[1].action = RECOVERY_SOFT
    /\ recovery_actions_taken[2].action = RECOVERY_MODULE_RESTART
    /\ recovery_actions_taken[3].action = RECOVERY_MODULE_RESTART
    /\ recovery_actions_taken[3].failure_count = 3
    /\ recovery_actions_taken[4].action = RECOVERY_SOFT
    /\ recovery_actions_taken[4].failure_count = 1

=============================================================================
